---- MODULE Spec2Model ----
(***************************************************************************)
(* Model of tsdiag: the characteristic-root classification of AR and MA    *)
(* models (src/src/tsdiag/core.py) and the interfaces built on it          *)
(* (stationarity.py, invertibility.py, api.py, cli.py).                    *)
(*                                                                         *)
(* State.  call and ret are the operation in progress and its outcome;     *)
(* self is the TSModelDiagnostic object of the caller (api.py); heap holds *)
(* the list objects of a call, which shows what an operation writes to and *)
(* which lists its result shares with the caller.                          *)
(*                                                                         *)
(* Numbers.  The program computes with floats; the model computes with     *)
(* exact rationals.  The unit-circle test uses the tolerance 1e-10, so the *)
(* model needs integers of the size of 10^10.  An integer is therefore     *)
(* written in base 10^10 as a sequence of signed limbs, least significant  *)
(* first, without trailing zero limbs (<< >> is 0, <<5>> is 5, <<1, 2>> is *)
(* 2*10^10 + 1).  No limb of the model ever leaves -2^31 .. 2^31, which is *)
(* below half the base, so an integer has exactly one such sequence, its   *)
(* sign is the sign of its last limb, and sums and products need no carry. *)
(*                                                                         *)
(* Style.  A function of the source is an operator of the same name, in    *)
(* CamelCase.  Where the source names an intermediate value and uses it    *)
(* several times, the model hands it to a helper operator as a parameter   *)
(* instead of naming it in a LET, which keeps TLC's coverage statistics    *)
(* small: the helper's parameters carry the source's names.                *)
(***************************************************************************)
EXTENDS Integers, Sequences, FiniteSets, TLC

\* ------------------------------------------------------------------ bounds
\* longest coefficient list handed to an operation
MaxLen == 2
\* longest text string handed to check_ar_stationarity / check_ma_invertibility
MaxStrLen == 4

\* the longest list of models handed to a batch operation
MaxBatch == 2

\* ---------------------------------------------------------------- integers
IMax(a, b) == IF a >= b THEN a ELSE b

IMin(a, b) == IF a <= b THEN a ELSE b

IAbs(a) == IF a >= 0 THEN a ELSE -a

RECURSIVE IGcd(_, _)
IGcd(a, b) == IF b = 0 THEN a ELSE IGcd(b, a % b)

RECURSIVE BTrim(_)
BTrim(s) ==
    IF s = << >> THEN << >>
    ELSE IF s[Len(s)] = 0 THEN BTrim(SubSeq(s, 1, Len(s) - 1))
    ELSE s

BInt(k) == IF k = 0 THEN << >> ELSE <<k>>

BLimb(a, i) == IF i >= 1 /\ i <= Len(a) THEN a[i] ELSE 0

BNeg(a) == [i \in 1..Len(a) |-> -a[i]]

BAdd(a, b) == BTrim([i \in 1..IMax(Len(a), Len(b)) |-> BLimb(a, i) + BLimb(b, i)])

BSub(a, b) == BAdd(a, BNeg(b))

RECURSIVE BConv(_, _, _, _)
\* sum of a[i] * b[k + 1 - i] for i = from .. Len(a)
BConv(a, b, k, from) ==
    IF from > Len(a) THEN 0
    ELSE a[from] * BLimb(b, k + 1 - from) + BConv(a, b, k, from + 1)

BMul(a, b) ==
    IF a = << >> \/ b = << >> THEN << >>
    ELSE BTrim([k \in 1..(Len(a) + Len(b) - 1) |-> BConv(a, b, k, 1)])

BSign(a) == IF a = << >> THEN 0 ELSE IF a[Len(a)] > 0 THEN 1 ELSE -1

RECURSIVE BContent(_)
\* greatest common divisor of the limbs
BContent(a) == IF a = << >> THEN 0 ELSE IGcd(IAbs(a[1]), BContent(Tail(a)))

BDivInt(a, g) == [i \in 1..Len(a) |-> a[i] \div g]

\* --------------------------------------------------------------- rationals
\* a rational is [n |-> numerator, d |-> denominator], d > 0, reduced by the
\* integer content and by common powers of the base
RECURSIVE RShift(_, _)
RShift(n, d) ==
    IF n # << >> /\ n[1] = 0 /\ d[1] = 0 THEN RShift(Tail(n), Tail(d))
    ELSE [n |-> n, d |-> d]

RMake(n, d) ==
    IF n = << >> THEN [n |-> << >>, d |-> <<1>>]
    ELSE IF n = d THEN [n |-> <<1>>, d |-> <<1>>]
    ELSE IF n = BNeg(d) THEN [n |-> <<-1>>, d |-> <<1>>]
    ELSE LET g == IGcd(BContent(n), BContent(d))
             s == BSign(d) * g
         IN  RShift(BDivInt(n, s), BDivInt(d, s))

Rat(p, q) == RMake(BInt(p), BInt(q))

RZero == Rat(0, 1)

ROne == Rat(1, 1)

RNeg(x) == [n |-> BNeg(x.n), d |-> x.d]

RSign(x) == BSign(x.n)

RAbs(x) == IF RSign(x) < 0 THEN RNeg(x) ELSE x

RAdd(x, y) == RMake(BAdd(BMul(x.n, y.d), BMul(y.n, x.d)), BMul(x.d, y.d))

RSub(x, y) == RAdd(x, RNeg(y))

RMul(x, y) == RMake(BMul(x.n, y.n), BMul(x.d, y.d))

RDiv(x, y) == RMake(BMul(x.n, y.d), BMul(x.d, y.n))

\* sign of x - y
RCmp(x, y) == BSign(BSub(BMul(x.n, y.d), BMul(y.n, x.d)))

REq(x, y) == RCmp(x, y) = 0

RLt(x, y) == RCmp(x, y) < 0

RLe(x, y) == RCmp(x, y) <= 0

RGt(x, y) == RCmp(x, y) > 0

RGe(x, y) == RCmp(x, y) >= 0

RECURSIVE ISqrtFrom(_, _)
ISqrtFrom(k, r) == IF r * r >= k THEN r ELSE ISqrtFrom(k, r + 1)

\* a non-negative integer of one limb that is a perfect square
BIsSquare(a) ==
    \/ a = << >>
    \/ Len(a) = 1 /\ a[1] > 0 /\ ISqrtFrom(a[1], 0) * ISqrtFrom(a[1], 0) = a[1]

BSqrt(a) == IF a = << >> THEN << >> ELSE <<ISqrtFrom(a[1], 0)>>

RIsSquare(x) == BIsSquare(x.n) /\ BIsSquare(x.d)

RSqrt(x) == RMake(BSqrt(x.n), BSqrt(x.d))

\* the tolerance 1e-10 of the unit-circle test
Tol == RMake(<<1>>, <<0, 1>>)

\* float('inf'): greater than every rational under RCmp
RInf == [n |-> <<1>>, d |-> << >>]

\* ---------------------------------------------------------- complex numbers
Cx(re, im) == [re |-> re, im |-> im]

\* abs(root): the complex modulus
CAbs(z) ==
    IF RSign(z.im) = 0 THEN RAbs(z.re)
    ELSE RSqrt(RAdd(RMul(z.re, z.re), RMul(z.im, z.im)))

\* ------------------------------------------------------------ numpy.roots
SetMin(S) == CHOOSE x \in S : \A y \in S : x <= y

SetMax(S) == CHOOSE x \in S : \A y \in S : x >= y

Reverse(s) == [i \in 1..Len(s) |-> s[Len(s) + 1 - i]]

RECURSIVE PEval(_, _)
\* value at r of the polynomial with coefficients p, highest degree first
PEval(p, r) ==
    IF p = << >> THEN RZero
    ELSE RAdd(RMul(PEval(SubSeq(p, 1, Len(p) - 1), r), r), p[Len(p)])

RECURSIVE PDeflateFrom(_, _, _, _)
\* synthetic division of p by (z - r): the quotient's coefficients from the
\* i-th on, the one before being prev
PDeflateFrom(p, r, i, prev) ==
    IF i >= Len(p) THEN << >>
    ELSE <<RAdd(p[i], RMul(prev, r))>>
            \o PDeflateFrom(p, r, i + 1, RAdd(p[i], RMul(prev, r)))

\* the quotient of p by (z - r), for a root r of p
PDeflate(p, r) == PDeflateFrom(p, r, 1, RZero)

IsPlain(x) == Len(x.n) <= 1 /\ Len(x.d) = 1

Divisors(k) == {d \in 1..k : k % d = 0}

ILcm(a, b) == (a \div IGcd(a, b)) * b

RECURSIVE DenLcm(_)
DenLcm(p) == IF p = << >> THEN 1 ELSE ILcm(p[1].d[1], DenLcm(Tail(p)))

\* |x * l| for a rational x of one limb whose denominator divides l
Scaled(x, l) == IAbs(x.n[1]) * (l \div x.d[1])

CandidatesOf(const, lead) ==
    {Rat(s * a, b) : s \in {1, -1}, a \in Divisors(const), b \in Divisors(lead)}

\* the candidates of the rational root theorem for a polynomial with
\* rational coefficients and non-zero first and last coefficient
RationalCandidates(p) ==
    CandidatesOf(Scaled(p[Len(p)], DenLcm(p)), Scaled(p[1], DenLcm(p)))

RationalRoots(p) ==
    IF \A i \in 1..Len(p) : IsPlain(p[i])
    THEN {r \in RationalCandidates(p) : RSign(PEval(p, r)) = 0}
    ELSE {}

\* z^2 + b z + c, the characteristic polynomial of the 2 x 2 companion
\* matrix of p: b = p[2]/p[1], c = p[3]/p[1]
QuadB(p) == RDiv(p[2], p[1])

QuadC(p) == RDiv(p[3], p[1])

Disc(b, c) == RSub(RMul(b, b), RMul(Rat(4, 1), c))

\* the roots of z^2 + b z + c are numbers of the model: rationals, or
\* complex numbers with rational parts and rational modulus
HasQuadraticRoots(b, disc) ==
    /\ RIsSquare(RAbs(disc))
    /\ RSign(disc) < 0 => RIsSquare(RAdd(RMul(b, b), RAbs(disc)))

\* the roots of z^2 + b z + c, s the square root of |disc|
QuadraticRoots(b, disc, s) ==
    IF RSign(disc) >= 0
    THEN <<Cx(RMul(Rat(1, 2), RAdd(RNeg(b), s)), RZero),
           Cx(RMul(Rat(1, 2), RSub(RNeg(b), s)), RZero)>>
    ELSE <<Cx(RMul(Rat(1, 2), RNeg(b)), RMul(Rat(1, 2), s)),
           Cx(RMul(Rat(1, 2), RNeg(b)), RNeg(RMul(Rat(1, 2), s)))>>

RECURSIVE HasEigvals(_)
\* the eigenvalues of the companion matrix of p are numbers of the model
HasEigvals(p) ==
    IF Len(p) <= 2 THEN TRUE
    ELSE IF Len(p) = 3
    THEN HasQuadraticRoots(QuadB(p), Disc(QuadB(p), QuadC(p)))
    ELSE /\ RationalRoots(p) # {}
         /\ HasEigvals(PDeflate(p, CHOOSE r \in RationalRoots(p) : TRUE))

RECURSIVE Eigvals(_)
RECURSIVE EigvalsFrom(_, _)
\* a rational eigenvalue r and the eigenvalues of the deflated matrix
EigvalsFrom(p, r) == <<Cx(r, RZero)>> \o Eigvals(PDeflate(p, r))

\* eigvals(A) for the companion matrix A of p (first row -p[1:]/p[0])
Eigvals(p) ==
    IF Len(p) <= 1 THEN << >>
    ELSE IF Len(p) = 2 THEN <<Cx(RDiv(RNeg(p[2]), p[1]), RZero)>>
    ELSE IF Len(p) = 3
    THEN QuadraticRoots(QuadB(p), Disc(QuadB(p), QuadC(p)),
                        RSqrt(RAbs(Disc(QuadB(p), QuadC(p)))))
    ELSE EigvalsFrom(p, CHOOSE r \in RationalRoots(p) : TRUE)

NonZero(p) == {i \in 1..Len(p) : RSign(p[i]) # 0}

\* the polynomial numpy.roots hands to eigvals: leading and trailing zero
\* coefficients stripped
NpStrip(p) ==
    IF NonZero(p) = {} THEN << >>
    ELSE SubSeq(p, SetMin(NonZero(p)), SetMax(NonZero(p)))

\* numpy.roots(p), p from the highest degree to the constant term
NpRoots(p) ==
    IF NonZero(p) = {} THEN << >>
    ELSE Eigvals(NpStrip(p))
            \o [i \in 1..(Len(p) - SetMax(NonZero(p))) |-> Cx(RZero, RZero)]

\* ------------------------------------------------------------------ inputs
\* An argument is [kind, elems]: kind is the Python type ("list", "ndarray",
\* "tuple", "str", "NoneType"); elems are the items of a list, array or tuple,
\* or the characters of a str.  An item is [k, v]: a float ("num", v the
\* rational), a str ("str", v its characters) or None ("none").
Num(x) == [k |-> "num", v |-> x]

Str(chars) == [k |-> "str", v |-> chars]

None == [k |-> "none", v |-> << >>]

Arg(kind, elems) == [kind |-> kind, elems |-> elems]

\* --------------------------------------------------------------- float(x)
Digits == {"0", "1", "2", "3", "4", "5", "6", "7", "8", "9"}

DigitVal(c) ==
    CASE c = "0" -> 0 [] c = "1" -> 1 [] c = "2" -> 2 [] c = "3" -> 3
      [] c = "4" -> 4 [] c = "5" -> 5 [] c = "6" -> 6 [] c = "7" -> 7
      [] c = "8" -> 8 [] c = "9" -> 9

RECURSIVE DigitsValue(_)
DigitsValue(s) ==
    IF s = << >> THEN 0
    ELSE 10 * DigitsValue(SubSeq(s, 1, Len(s) - 1)) + DigitVal(s[Len(s)])

RECURSIVE Pow10(_)
Pow10(k) == IF k = 0 THEN 1 ELSE 10 * Pow10(k - 1)

RECURSIVE StripLeft(_)
StripLeft(s) == IF s # << >> /\ s[1] = " " THEN StripLeft(Tail(s)) ELSE s

\* str.strip()
Strip(s) == Reverse(StripLeft(Reverse(StripLeft(s))))

NotAFloat == [ok |-> FALSE, v |-> RZero]

\* the number with integer part ip and fraction digits fp
ParseDigits(ip, fp, negative) ==
    IF /\ \A i \in 1..Len(ip) : ip[i] \in Digits
       /\ \A i \in 1..Len(fp) : fp[i] \in Digits
       /\ Len(ip) + Len(fp) >= 1
    THEN [ok |-> TRUE,
          v |-> Rat((IF negative THEN -1 ELSE 1)
                       * (DigitsValue(ip) * Pow10(Len(fp)) + DigitsValue(fp)),
                    Pow10(Len(fp)))]
    ELSE NotAFloat

\* the unsigned part of a float text, dots the places of its "."
ParseBody(body, dots, negative) ==
    IF Cardinality(dots) > 1 THEN NotAFloat
    ELSE IF dots = {} THEN ParseDigits(body, << >>, negative)
    ELSE ParseDigits(SubSeq(body, 1, SetMin(dots) - 1),
                     SubSeq(body, SetMin(dots) + 1, Len(body)), negative)

DotsOf(body) == {i \in 1..Len(body) : body[i] = "."}

ParseSigned(s) ==
    IF s # << >> /\ s[1] \in {"-", "+"}
    THEN ParseBody(Tail(s), DotsOf(Tail(s)), s[1] = "-")
    ELSE ParseBody(s, DotsOf(s), FALSE)

\* float(text): [ok, v]; ok is FALSE where Python raises ValueError.  The
\* texts of the model are made of digits, ".", "-", "+", " ", "," and letters.
ParseFloat(text) == ParseSigned(Strip(text))

\* float(c) for an item c of a coefficient sequence; ok is FALSE where Python
\* raises ValueError or TypeError
PyFloat(c) ==
    IF c.k = "num" THEN [ok |-> TRUE, v |-> c.v]
    ELSE IF c.k = "str" THEN ParseFloat(c.v)
    ELSE NotAFloat

\* ------------------------------------------------------------------ core.py
\* the outcome of a call: the value returned, or the exception raised
Return(v) == [exc |-> "none", val |-> v]

Raise(type, msg) == [exc |-> type, val |-> msg]

Msg(text, name, args) == [text |-> text, name |-> name, args |-> args]

\* the validator without the test for an empty list
ValidateCoefficientsKeepingEmpty(coefficients, name) ==
    IF coefficients.kind \notin {"list", "ndarray"}
    THEN Raise("TypeError", Msg("must be a list or numpy array", name, << >>))
    ELSE IF \E i \in 1..Len(coefficients.elems) : ~PyFloat(coefficients.elems[i]).ok
    THEN Raise("ValueError", Msg("must all be numeric", name, << >>))
    ELSE Return([i \in 1..Len(coefficients.elems) |-> PyFloat(coefficients.elems[i]).v])

\* the validator with isinstance(coefficients, (list, tuple, np.ndarray))
ValidateCoefficientsOfTuples(coefficients, name) ==
    IF coefficients.kind \notin {"list", "ndarray", "tuple"}
    THEN Raise("TypeError", Msg("must be a list or numpy array", name, << >>))
    ELSE IF Len(coefficients.elems) = 0
    THEN Raise("ValueError", Msg("must not be empty", name, << >>))
    ELSE IF \E i \in 1..Len(coefficients.elems) : ~PyFloat(coefficients.elems[i]).ok
    THEN Raise("ValueError", Msg("must all be numeric", name, << >>))
    ELSE Return([i \in 1..Len(coefficients.elems) |-> PyFloat(coefficients.elems[i]).v])

ValidateCoefficients(coefficients, name) ==
    IF coefficients.kind \notin {"list", "ndarray"}
    THEN Raise("TypeError", Msg("must be a list or numpy array", name, << >>))
    ELSE IF Len(coefficients.elems) = 0
    THEN Raise("ValueError", Msg("must not be empty", name, << >>))
    ELSE IF \E i \in 1..Len(coefficients.elems) : ~PyFloat(coefficients.elems[i]).ok
    THEN Raise("ValueError", Msg("must all be numeric", name, << >>))
    ELSE Return([i \in 1..Len(coefficients.elems) |-> PyFloat(coefficients.elems[i]).v])

BuildCharacteristicPolynomial(coefficients) == <<ROne>> \o coefficients

\* is_outside = magnitude > 1.0, the comparison without the tolerance
IsOutsideNoTolerance(magnitude) == RGt(magnitude, ROne)

\* is_outside = magnitude > 1.0 + 1e-10
IsOutside(magnitude) == RGt(magnitude, RAdd(ROne, Tol))

\* a root info whose flag is computed from the real part of the root
RootInfoOfRealPart(root, magnitude) ==
    [value |-> root, magnitude |-> magnitude,
     is_outside_unit_circle |-> IsOutside(root.re)]

RootInfo(root, magnitude) ==
    [value |-> root, magnitude |-> magnitude,
     is_outside_unit_circle |-> IsOutside(magnitude)]

\* the root infos with the real part of a root in place of its modulus
RootInfosOfRealParts(roots) == [i \in 1..Len(roots) |-> RootInfo(roots[i], roots[i].re)]

RootInfos(roots) == [i \in 1..Len(roots) |-> RootInfo(roots[i], CAbs(roots[i]))]

\* the roots of the polynomial handed to numpy.roots lowest degree first
ComputePolynomialRootsUnreversed(polynomial_coeffs) ==
    IF Len(polynomial_coeffs) <= 1 THEN << >>
    ELSE RootInfos(NpRoots(polynomial_coeffs))

\* the roots with the early return taken for len(polynomial_coeffs) <= 2
ComputePolynomialRootsFromLength3(polynomial_coeffs) ==
    IF Len(polynomial_coeffs) <= 2 THEN << >>
    ELSE RootInfos(NpRoots(Reverse(polynomial_coeffs)))

ComputePolynomialRoots(polynomial_coeffs) ==
    IF Len(polynomial_coeffs) <= 1 THEN << >>
    ELSE RootInfos(NpRoots(Reverse(polynomial_coeffs)))

\* sum(1 for root in roots if not root.is_outside_unit_circle)
InsideCount(roots) ==
    Cardinality({i \in 1..Len(roots) : ~roots[i].is_outside_unit_circle})

\* any(root.is_outside_unit_circle for root in roots)
AnyOutside(roots) == \E i \in 1..Len(roots) : roots[i].is_outside_unit_circle

\* all(root.is_outside_unit_circle for root in roots)
AllOutside(roots) == \A i \in 1..Len(roots) : roots[i].is_outside_unit_circle

\* the coefficients with their signs kept
KeepAll(coeffs) == coeffs

NegateAll(coeffs) == [i \in 1..Len(coeffs) |-> RNeg(coeffs[i])]

StationarityMessage(is_stationary, roots) ==
    IF is_stationary
    THEN Msg("stationarity condition holds", "AR", << >>)
    ELSE Msg("stationarity condition fails: roots inside or on the unit circle",
             "AR", <<InsideCount(roots)>>)

StationarityResult(coeffs, poly_coeffs, roots, is_stationary) ==
    [is_stationary |-> is_stationary,
     roots |-> roots,
     ar_coefficients |-> coeffs,
     characteristic_polynomial |-> poly_coeffs,
     message |-> StationarityMessage(is_stationary, roots)]

StationarityOfRoots(coeffs, poly_coeffs, roots) ==
    StationarityResult(coeffs, poly_coeffs, roots, AllOutside(roots))

StationarityOfPolynomial(coeffs, poly_coeffs) ==
    StationarityOfRoots(coeffs, poly_coeffs, ComputePolynomialRoots(poly_coeffs))

StationarityOfValidated(v) ==
    IF v.exc # "none" THEN v
    ELSE Return(StationarityOfPolynomial(v.val,
                    BuildCharacteristicPolynomial(NegateAll(v.val))))

StationarityCheck(ar_coefficients) ==
    StationarityOfValidated(ValidateCoefficients(ar_coefficients, "AR"))

InvertibilityMessage(is_invertible, roots) ==
    IF is_invertible
    THEN Msg("invertibility condition holds", "MA", << >>)
    ELSE Msg("invertibility condition fails: roots inside or on the unit circle",
             "MA", <<InsideCount(roots)>>)

InvertibilityResult(coeffs, poly_coeffs, roots, is_invertible) ==
    [is_invertible |-> is_invertible,
     roots |-> roots,
     ma_coefficients |-> coeffs,
     characteristic_polynomial |-> poly_coeffs,
     message |-> InvertibilityMessage(is_invertible, roots)]

InvertibilityOfRoots(coeffs, poly_coeffs, roots) ==
    InvertibilityResult(coeffs, poly_coeffs, roots, AllOutside(roots))

InvertibilityOfPolynomial(coeffs, poly_coeffs) ==
    InvertibilityOfRoots(coeffs, poly_coeffs, ComputePolynomialRoots(poly_coeffs))

InvertibilityOfValidated(v) ==
    IF v.exc # "none" THEN v
    ELSE Return(InvertibilityOfPolynomial(v.val, BuildCharacteristicPolynomial(v.val)))

InvertibilityCheck(ma_coefficients) ==
    InvertibilityOfValidated(ValidateCoefficients(ma_coefficients, "MA"))

\* ----------------------------------------- stationarity.py, invertibility.py
\* str.replace(',', ' ')
\* the text with its commas kept
KeepCommas(chars) == chars

ReplaceCommas(chars) ==
    [i \in 1..Len(chars) |-> IF chars[i] = "," THEN " " ELSE chars[i]]

RECURSIVE Split(_)
RECURSIVE SplitAt(_, _)
\* the first run of s, which starts with a non-blank, and the runs after it
SplitAt(s, blanks) ==
    IF blanks = {} THEN <<s>>
    ELSE <<SubSeq(s, 1, SetMin(blanks) - 1)>> \o Split(SubSeq(s, SetMin(blanks), Len(s)))

RECURSIVE SplitStripped(_)
SplitStripped(s) ==
    IF s = << >> THEN << >> ELSE SplitAt(s, {i \in 1..Len(s) : s[i] = " "})

\* str.split(): the maximal runs of non-blank characters
Split(chars) == SplitStripped(StripLeft(chars))

\* [float(x.strip()) for x in tokens if x.strip()], or the ValueError
ParseTokens(tokens, name, text) ==
    IF \E i \in 1..Len(tokens) : ~ParseFloat(Strip(tokens[i])).ok
    THEN Raise("ValueError", Msg("cannot parse coefficient string", name, text))
    ELSE Return(Arg("list", [i \in 1..Len(tokens) |-> Num(ParseFloat(Strip(tokens[i])).v)]))

\* the coefficients a check_* function hands to the core: the parsed list of
\* a str (or the ValueError of the parse), any other argument as it is
ParseCoefficients(coefficients, name) ==
    IF coefficients.kind = "str"
    THEN ParseTokens(Split(ReplaceCommas(coefficients.elems)), name, coefficients.elems)
    ELSE Return(coefficients)

CheckArParsed(coeffs) ==
    IF coeffs.exc # "none" THEN coeffs ELSE StationarityCheck(coeffs.val)

CheckArStationarity(ar_coefficients) ==
    CheckArParsed(ParseCoefficients(ar_coefficients, "AR"))

CheckMaParsed(coeffs) ==
    IF coeffs.exc # "none" THEN coeffs ELSE InvertibilityCheck(coeffs.val)

CheckMaInvertibility(ma_coefficients) ==
    CheckMaParsed(ParseCoefficients(ma_coefficients, "MA"))

\* min(distances)
RECURSIVE SeqMin(_)
RECURSIVE SeqMinWith(_, _)
SeqMinWith(x, m) == IF RLe(x, m) THEN x ELSE m

SeqMin(xs) == IF Len(xs) = 1 THEN xs[1] ELSE SeqMinWith(xs[1], SeqMin(Tail(xs)))

\* the last place of x in xs
IndexOfLast(xs, x) == SetMax({i \in 1..Len(xs) : REq(xs[i], x)})

\* distances.index(x)
IndexOf(xs, x) == SetMin({i \in 1..Len(xs) : REq(xs[i], x)})

\* [1.0 - root.magnitude for root in roots]
DistancesInward(roots) == [i \in 1..Len(roots) |-> RSub(ROne, roots[i].magnitude)]

\* [root.magnitude - 1.0 for root in roots]
Distances(roots) == [i \in 1..Len(roots) |-> RSub(roots[i].magnitude, ROne)]

\* the risk tiers with min_distance < 0 for 'high'
RiskLevelStrict(min_distance) ==
    IF RLt(min_distance, RZero) THEN "high"
    ELSE IF RLt(min_distance, Rat(1, 10)) THEN "medium"
    ELSE "low"

\* the risk tiers with min_distance <= 1e-10 for 'high'
RiskLevelWithTolerance(min_distance) ==
    IF RLe(min_distance, Tol) THEN "high"
    ELSE IF RLt(min_distance, Rat(1, 10)) THEN "medium"
    ELSE "low"

RiskLevel(min_distance) ==
    IF RLe(min_distance, RZero) THEN "high"
    ELSE IF RLt(min_distance, Rat(1, 10)) THEN "medium"
    ELSE "low"

ArMarginReport(roots, distances, min_distance) ==
    [min_distance_to_unit_circle |-> min_distance,
     closest_root |-> roots[IndexOf(distances, min_distance)],
     stability_margin |-> min_distance,
     risk_level |-> RiskLevel(min_distance),
     all_distances |-> distances]

\* the report with margin 0 and risk 'high' for a model without roots
ArMarginOfRootsZero(roots, distances) ==
    IF roots = << >>
    THEN [min_distance_to_unit_circle |-> RZero,
          closest_root |-> None,
          stability_margin |-> RZero,
          risk_level |-> "high"]
    ELSE ArMarginReport(roots, distances, SeqMin(distances))

\* the report with an empty all_distances for a model without roots
ArMarginOfRootsListing(roots, distances) ==
    IF roots = << >>
    THEN [min_distance_to_unit_circle |-> RInf,
          closest_root |-> None,
          stability_margin |-> RInf,
          risk_level |-> "low",
          all_distances |-> distances]
    ELSE ArMarginReport(roots, distances, SeqMin(distances))

ArMarginOfRoots(roots, distances) ==
    IF roots = << >>
    THEN [min_distance_to_unit_circle |-> RInf,
          closest_root |-> None,
          stability_margin |-> RInf,
          risk_level |-> "low"]
    ELSE ArMarginReport(roots, distances, SeqMin(distances))

ArMarginOfResult(r) ==
    IF r.exc # "none" THEN r
    ELSE Return(ArMarginOfRoots(r.val.roots, Distances(r.val.roots)))

\* the margin report of the result of check_ar_stationarity, which parses text
AnalyzeArStabilityMarginOfText(ar_coefficients) ==
    ArMarginOfResult(CheckArStationarity(ar_coefficients))

AnalyzeArStabilityMargin(ar_coefficients) ==
    ArMarginOfResult(StationarityCheck(ar_coefficients))

MaMarginReport(roots, distances, min_distance) ==
    [min_distance_to_unit_circle |-> min_distance,
     closest_root |-> roots[IndexOf(distances, min_distance)],
     invertibility_margin |-> min_distance,
     risk_level |-> RiskLevel(min_distance),
     all_distances |-> distances]

MaMarginOfRoots(roots, distances) ==
    IF roots = << >>
    THEN [min_distance_to_unit_circle |-> RInf,
          closest_root |-> None,
          invertibility_margin |-> RInf,
          risk_level |-> "low"]
    ELSE MaMarginReport(roots, distances, SeqMin(distances))

MaMarginOfResult(r) ==
    IF r.exc # "none" THEN r
    ELSE Return(MaMarginOfRoots(r.val.roots, Distances(r.val.roots)))

AnalyzeMaInvertibilityMargin(ma_coefficients) ==
    MaMarginOfResult(InvertibilityCheck(ma_coefficients))

\* numpy.sign(x) as a float
\* the sign taken as +1 for every number
NpSignOfAbs(x) == ROne

NpSign(x) == Rat(RSign(x), 1)

\* the suggestions for order 1 with a new coefficient for every failing model
SuggestOrder1Always(coefficients, found, name, coeff, new_coeff) ==
    [is_modification_needed |-> TRUE,
     original_coefficients |-> coefficients,
     suggestions |->
         <<found, Msg("adjust the coefficient", name, <<coeff, new_coeff>>)>>,
     suggested_coefficients |-> <<new_coeff>>]

SuggestOrder1(coefficients, found, name, coeff, new_coeff) ==
    IF RGe(RAbs(coeff), ROne)
    THEN [is_modification_needed |-> TRUE,
          original_coefficients |-> coefficients,
          suggestions |->
              <<found, Msg("adjust the coefficient", name, <<coeff, new_coeff>>)>>,
          suggested_coefficients |-> <<new_coeff>>]
    ELSE [is_modification_needed |-> TRUE,
          original_coefficients |-> coefficients,
          suggestions |-> <<found>>]

\* the suggestions with the coefficients handed back as they are
SuggestScaledByOne(coefficients, found, name, scale_factor) ==
    [is_modification_needed |-> TRUE,
     original_coefficients |-> coefficients,
     suggestions |-> <<found, Msg("multiply all coefficients", name, <<scale_factor>>)>>,
     suggested_coefficients |-> coefficients]

SuggestScaled(coefficients, found, name, scale_factor) ==
    [is_modification_needed |-> TRUE,
     original_coefficients |-> coefficients,
     suggestions |-> <<found, Msg("multiply all coefficients", name, <<scale_factor>>)>>,
     suggested_coefficients |->
         [i \in 1..Len(coefficients) |-> RMul(coefficients[i], scale_factor)]]

\* the suggestions for a failing model with every order scaled by 0.95
SuggestFailingScaledOnly(coefficients, found, name) ==
    SuggestScaled(coefficients, found, name, Rat(95, 100))

\* the suggestions of suggest_*_modifications for a model that fails the
\* condition; found is the report of the count of problematic roots
SuggestFailing(coefficients, found, name) ==
    IF Len(coefficients) = 1
    THEN SuggestOrder1(coefficients, found, name, coefficients[1],
                       RMul(Rat(95, 100), NpSign(coefficients[1])))
    ELSE SuggestScaled(coefficients, found, name, Rat(9, 10))

\* the suggestions with the coefficients of a stationary model handed back
\* as suggested_coefficients
SuggestArOfResultEchoing(r) ==
    IF r.exc # "none" THEN r
    ELSE IF r.val.is_stationary
    THEN Return([is_modification_needed |-> FALSE,
                 original_coefficients |-> r.val.ar_coefficients,
                 suggestions |-> <<Msg("no modification needed", "AR", << >>)>>,
                 suggested_coefficients |-> r.val.ar_coefficients])
    ELSE Return(SuggestFailing(r.val.ar_coefficients,
                    Msg("problematic roots found", "AR", <<InsideCount(r.val.roots)>>),
                    "AR"))

SuggestArOfResult(r) ==
    IF r.exc # "none" THEN r
    ELSE IF r.val.is_stationary
    THEN Return([is_modification_needed |-> FALSE,
                 original_coefficients |-> r.val.ar_coefficients,
                 suggestions |-> <<Msg("no modification needed", "AR", << >>)>>])
    ELSE Return(SuggestFailing(r.val.ar_coefficients,
                    Msg("problematic roots found", "AR", <<InsideCount(r.val.roots)>>),
                    "AR"))

SuggestArModifications(ar_coefficients) ==
    SuggestArOfResult(StationarityCheck(ar_coefficients))

SuggestMaOfResult(r) ==
    IF r.exc # "none" THEN r
    ELSE IF r.val.is_invertible
    THEN Return([is_modification_needed |-> FALSE,
                 original_coefficients |-> r.val.ma_coefficients,
                 suggestions |-> <<Msg("no modification needed", "MA", << >>)>>])
    ELSE Return(SuggestFailing(r.val.ma_coefficients,
                    Msg("problematic roots found", "MA", <<InsideCount(r.val.roots)>>),
                    "MA"))

SuggestMaModifications(ma_coefficients) ==
    SuggestMaOfResult(InvertibilityCheck(ma_coefficients))

\* ------------------------------------------------------- the inputs checked
\* 1/(1 + 0.5e-10): the root of the order-1 model with this coefficient lies
\* outside the unit circle by half the tolerance
\* [f"Model_{i+1}" for i in range(len(models))]
DefaultNames(n) == [i \in 1..n |-> <<"Model_", i>>]

\* the default names also for a list of names of another length
ModelNamesOrDefault(models, model_names) ==
    IF model_names.kind = "NoneType" THEN DefaultNames(Len(models))
    ELSE IF Len(model_names.elems) # Len(models) THEN DefaultNames(Len(models))
    ELSE model_names.elems

ModelNames(models, model_names) ==
    IF model_names.kind = "NoneType" THEN DefaultNames(Len(models))
    ELSE model_names.elems

\* the entry of the except branch, e the error
ArBatchError(name, i, e) ==
    [model_name |-> name, model_index |-> i, coefficients |-> None,
     is_stationary |-> FALSE, error |-> e, result |-> None]

MaBatchError(name, i, e) ==
    [model_name |-> name, model_index |-> i, coefficients |-> None,
     is_invertible |-> FALSE, error |-> e, result |-> None]

\* the entry of one AR model: r is its classification, margin its report
ArBatchEntry(name, i, r, margin) ==
    IF r.exc # "none" THEN ArBatchError(name, i, r.val)
    ELSE IF margin.exc # "none"
    THEN ArBatchError(name, i, margin.val)
    ELSE [model_name |-> name,
          model_index |-> i,
          coefficients |-> r.val.ar_coefficients,
          is_stationary |-> r.val.is_stationary,
          num_roots |-> Len(r.val.roots),
          stability_margin |-> margin.val.stability_margin,
          risk_level |-> margin.val.risk_level,
          result |-> r.val]

\* the entries with model_index counted from 1
ArBatchEntriesFromOne(ar_models, names) ==
    [i \in 1..Len(ar_models) |->
        ArBatchEntry(names[i], i, StationarityCheck(ar_models[i]),
                     AnalyzeArStabilityMargin(ar_models[i]))]

ArBatchEntries(ar_models, names) ==
    [i \in 1..Len(ar_models) |->
        ArBatchEntry(names[i], i - 1, StationarityCheck(ar_models[i]),
                     AnalyzeArStabilityMargin(ar_models[i]))]

BatchArNamed(ar_models, names) ==
    IF Len(names) # Len(ar_models)
    THEN Raise("ValueError", Msg("as many model names as models are needed", "", << >>))
    ELSE Return(ArBatchEntries(ar_models, names))

BatchStationarityCheck(ar_models, model_names) ==
    BatchArNamed(ar_models, ModelNames(ar_models, model_names))

\* the entry of one MA model: r is its classification, margin its report
MaBatchEntry(name, i, r, margin) ==
    IF r.exc # "none" THEN MaBatchError(name, i, r.val)
    ELSE IF margin.exc # "none"
    THEN MaBatchError(name, i, margin.val)
    ELSE [model_name |-> name,
          model_index |-> i,
          coefficients |-> r.val.ma_coefficients,
          is_invertible |-> r.val.is_invertible,
          num_roots |-> Len(r.val.roots),
          invertibility_margin |-> margin.val.invertibility_margin,
          risk_level |-> margin.val.risk_level,
          result |-> r.val]

MaBatchEntries(ma_models, names) ==
    [i \in 1..Len(ma_models) |->
        MaBatchEntry(names[i], i - 1, InvertibilityCheck(ma_models[i]),
                     AnalyzeMaInvertibilityMargin(ma_models[i]))]

BatchMaNamed(ma_models, names) ==
    IF Len(names) # Len(ma_models)
    THEN Raise("ValueError", Msg("as many model names as models are needed", "", << >>))
    ELSE Return(MaBatchEntries(ma_models, names))

BatchInvertibilityCheck(ma_models, model_names) ==
    BatchMaNamed(ma_models, ModelNames(ma_models, model_names))

\* 'invertibility_margin' in r
HasMargin(r) == "invertibility_margin" \in DOMAIN r

\* valid_results before the sort
ValidResults(results) == SelectSeq(results, HasMargin)

\* the place behind the entries of a larger margin only
PlaceBeforeEqual(sorted, e) ==
    Cardinality({i \in 1..Len(sorted) :
                    RGt(sorted[i].invertibility_margin, e.invertibility_margin)})

\* the place of e in a list sorted by descending margin: behind the entries
\* of a margin at least that of e
PlaceOf(sorted, e) ==
    Cardinality({i \in 1..Len(sorted) :
                    RGe(sorted[i].invertibility_margin, e.invertibility_margin)})

InsertAt(sorted, e, p) ==
    SubSeq(sorted, 1, p) \o <<e>> \o SubSeq(sorted, p + 1, Len(sorted))

RECURSIVE SortByMarginDescending(_)
\* valid_results.sort(key=lambda x: x['invertibility_margin'], reverse=True),
\* a stable sort: entries of equal margin keep their order
SortByMarginDescending(valid_results) ==
    IF valid_results = << >> THEN << >>
    ELSE InsertAt(SortByMarginDescending(SubSeq(valid_results, 1, Len(valid_results) - 1)),
                  valid_results[Len(valid_results)],
                  PlaceOf(SortByMarginDescending(SubSeq(valid_results, 1,
                                                        Len(valid_results) - 1)),
                          valid_results[Len(valid_results)]))

\* the count of the analysed entries in place of the invertible ones
InvertibleCountOfAnalysed(results) ==
    Cardinality({i \in 1..Len(results) : HasMargin(results[i])})

\* sum(1 for r in results if r.get('is_invertible', False))
InvertibleCount(results) ==
    Cardinality({i \in 1..Len(results) : results[i].is_invertible})

Comparison(results, valid_results, total_models, invertible_models) ==
    [total_models |-> total_models,
     invertible_models |-> invertible_models,
     non_invertible_models |-> total_models - invertible_models,
     invertibility_rate |->
         IF total_models > 0 THEN Rat(invertible_models, total_models) ELSE RZero,
     best_model |-> IF valid_results # << >> THEN valid_results[1] ELSE None,
     worst_model |->
         IF valid_results # << >> THEN valid_results[Len(valid_results)] ELSE None,
     all_results |-> results]

CompareOfResults(results) ==
    IF results.exc # "none" THEN results
    ELSE Return(Comparison(results.val,
                           SortByMarginDescending(ValidResults(results.val)),
                           Len(results.val), InvertibleCount(results.val)))

CompareMaModels(ma_models, model_names) ==
    CompareOfResults(BatchInvertibilityCheck(ma_models, model_names))

\* ----------------------------------------------------------------- api.py
\* str(root.value)
PyStr(x) == [k |-> "str", of |-> x]

RootDict(root) ==
    [value |-> PyStr(root.value),
     magnitude |-> root.magnitude,
     outside_unit_circle |-> root.is_outside_unit_circle]

RootDicts(roots) == [i \in 1..Len(roots) |-> RootDict(roots[i])]

\* suggestions.get('suggested_coefficients')
SuggestedOrNone(suggestions) ==
    IF "suggested_coefficients" \in DOMAIN suggestions
    THEN suggestions.suggested_coefficients
    ELSE None

\* analysis['ar'], or the exception of the first of the three calls to raise
ArAnalysis(ar_result, ar_stability, ar_suggestions) ==
    IF ar_result.exc # "none" THEN ar_result
    ELSE IF ar_stability.exc # "none" THEN ar_stability
    ELSE IF ar_suggestions.exc # "none" THEN ar_suggestions
    ELSE Return([is_stationary |-> ar_result.val.is_stationary,
                 coefficients |-> ar_result.val.ar_coefficients,
                 roots |-> RootDicts(ar_result.val.roots),
                 stability_margin |-> ar_stability.val.stability_margin,
                 risk_level |-> ar_stability.val.risk_level,
                 suggestions |-> ar_suggestions.val.suggestions,
                 suggested_coefficients |-> SuggestedOrNone(ar_suggestions.val)])

ArPart(ar_coefficients) ==
    ArAnalysis(CheckArStationarity(ar_coefficients),
               AnalyzeArStabilityMargin(ar_coefficients),
               SuggestArModifications(ar_coefficients))

\* analysis['ma'], or the exception of the first of the three calls to raise
MaAnalysis(ma_result, ma_invertibility, ma_suggestions) ==
    IF ma_result.exc # "none" THEN ma_result
    ELSE IF ma_invertibility.exc # "none" THEN ma_invertibility
    ELSE IF ma_suggestions.exc # "none" THEN ma_suggestions
    ELSE Return([is_invertible |-> ma_result.val.is_invertible,
                 coefficients |-> ma_result.val.ma_coefficients,
                 roots |-> RootDicts(ma_result.val.roots),
                 invertibility_margin |-> ma_invertibility.val.invertibility_margin,
                 risk_level |-> ma_invertibility.val.risk_level,
                 suggestions |-> ma_suggestions.val.suggestions,
                 suggested_coefficients |-> SuggestedOrNone(ma_suggestions.val)])

MaPart(ma_coefficients) ==
    MaAnalysis(CheckMaInvertibility(ma_coefficients),
               AnalyzeMaInvertibilityMargin(ma_coefficients),
               SuggestMaModifications(ma_coefficients))

\* ['low', 'medium', 'high'].index(level)
RiskIndex(level) == IF level = "low" THEN 0 ELSE IF level = "medium" THEN 1 ELSE 2

\* ['low', 'medium', 'high'][i]
RiskOfIndex(i) == IF i = 0 THEN "low" ELSE IF i = 1 THEN "medium" ELSE "high"

\* analysis['overall']
Overall(ar, ma) ==
    [model_valid |-> ar.is_stationary /\ ma.is_invertible,
     min_stability_margin |->
         IF RLt(ma.invertibility_margin, ar.stability_margin)
         THEN ma.invertibility_margin ELSE ar.stability_margin,
     max_risk_level |->
         RiskOfIndex(IMax(RiskIndex(ar.risk_level), RiskIndex(ma.risk_level)))]

IsNone(x) == x.kind = "NoneType"

\* the analysis of the parts that are not None: ar and ma are the results
\* of ArPart and MaPart
StabilityOfParts(ar_coefficients, ma_coefficients, ar, ma) ==
    IF ~IsNone(ar_coefficients) /\ ar.exc # "none" THEN ar
    ELSE IF ~IsNone(ma_coefficients) /\ ma.exc # "none" THEN ma
    ELSE IF ~IsNone(ar_coefficients) /\ ~IsNone(ma_coefficients)
    THEN Return([ar |-> ar.val, ma |-> ma.val, overall |-> Overall(ar.val, ma.val)])
    ELSE IF ~IsNone(ar_coefficients) THEN Return([ar |-> ar.val])
    ELSE IF ~IsNone(ma_coefficients) THEN Return([ma |-> ma.val])
    ELSE Return(<< >>)

AnalyzeModelStability(ar_coefficients, ma_coefficients) ==
    StabilityOfParts(ar_coefficients, ma_coefficients,
                     ArPart(ar_coefficients), MaPart(ma_coefficients))

\* the entry of one model of batch_model_analysis
AnalysisEntry(name, i, analysis) ==
    IF analysis.exc # "none"
    THEN [model_name |-> name, model_index |-> i, error |-> analysis.val]
    ELSE [model_name |-> name, model_index |-> i] @@ analysis.val

AnalysisEntries(models, names) ==
    [i \in 1..Len(models) |->
        AnalysisEntry(names[i], i - 1,
                      AnalyzeModelStability(models[i].ar, models[i].ma))]

BatchAnalysisNamed(models, names) ==
    IF Len(names) # Len(models)
    THEN Raise("ValueError", Msg("as many model names as models are needed", "", << >>))
    ELSE Return(AnalysisEntries(models, names))

BatchModelAnalysis(models, model_names) ==
    BatchAnalysisNamed(models, ModelNames(models, model_names))

NearOne == RMake(<<0, 2>>, <<1, 2>>)

Numbers ==
    {RZero, Rat(1, 2), Rat(-1, 2), ROne, Rat(-1, 1), Rat(2, 1), Rat(-2, 1),
     Rat(1, 4), NearOne, RNeg(NearOne)}

Items == {Num(x) : x \in Numbers} \cup {Str(<<"2">>), Str(<<"x">>), None}

Chars == {"1", "2", ".", "-", ",", " ", "x"}

RECURSIVE SeqsOfLen(_, _)
\* the sequences over S of length n
SeqsOfLen(S, n) ==
    IF n = 0 THEN {<< >>}
    ELSE {Append(q, x) : q \in SeqsOfLen(S, n - 1), x \in S}

\* the sequences over S of length at most n
SeqsUpTo(S, n) == UNION {SeqsOfLen(S, k) : k \in 0..n}

ListArgs == {Arg("list", e) : e \in SeqsUpTo(Items, MaxLen)}

\* arguments of the other Python types: arrays and tuples of floats, None
OtherArgs ==
    {Arg(kind, e) : kind \in {"ndarray", "tuple"},
                    e \in SeqsUpTo({Num(Rat(1, 2)), Num(Rat(2, 1))}, MaxLen)}
        \cup {Arg("NoneType", << >>)}

StrArgs == {Arg("str", e) : e \in SeqsUpTo(Chars, MaxStrLen)}

\* the texts handed to the operations that do not parse text
ShortStrArgs == {Arg("str", e) : e \in SeqsUpTo(Chars, MaxLen)}

\* the models handed to the batch operations
BatchModels ==
    {Arg("list", <<Num(Rat(1, 2))>>), Arg("list", <<Num(Rat(2, 1))>>),
     Arg("list", <<Num(RZero)>>), Arg("list", <<Num(ROne)>>),
     Arg("list", <<Num(NearOne)>>),
     Arg("list", <<Num(RZero), Num(Rat(1, 4))>>), Arg("list", << >>),
     Arg("list", <<Str(<<"x">>)>>), Arg("ndarray", <<Num(Rat(1, 2))>>),
     Arg("str", <<"1">>), Arg("NoneType", << >>)}

\* model.get('ar') and model.get('ma') of a dict: None for a missing key
ModelDict(ar, ma) == [ar |-> ar, ma |-> ma]

\* the models handed to batch_model_analysis
ModelDicts ==
    {ModelDict(Arg("list", <<Num(Rat(1, 2))>>), Arg("NoneType", << >>)),
     ModelDict(Arg("NoneType", << >>), Arg("list", <<Num(Rat(2, 1))>>)),
     ModelDict(Arg("list", <<Num(Rat(1, 2))>>), Arg("list", <<Num(Rat(1, 2))>>)),
     ModelDict(Arg("list", <<Num(Rat(2, 1))>>), Arg("list", <<Num(NearOne)>>)),
     ModelDict(Arg("list", << >>), Arg("list", <<Num(Rat(1, 2))>>)),
     ModelDict(Arg("str", <<"1">>), Arg("NoneType", << >>)),
     ModelDict(Arg("NoneType", << >>), Arg("NoneType", << >>))}

\* model_names: None, or a list of names
NameArgs ==
    {Arg("NoneType", << >>)}
        \cup {Arg("list", SubSeq(<<"a", "b", "c", "d">>, 1, n)) : n \in 0..IMin(MaxBatch, 4)}

\* the arguments of a batch operation
BatchArg(models, model_names) ==
    [kind |-> "models", elems |-> models, names |-> model_names]

\* the roots of the characteristic polynomial are numbers of the model
Solvable(poly_coeffs) == HasEigvals(NpStrip(Reverse(poly_coeffs)))

InModelValidated(v, name) ==
    IF v.exc # "none" THEN TRUE
    ELSE Solvable(BuildCharacteristicPolynomial(
                      IF name = "AR" THEN NegateAll(v.val) ELSE v.val))

InModelParsed(parsed, name) ==
    IF parsed.exc # "none" THEN TRUE
    ELSE InModelValidated(ValidateCoefficients(parsed.val, name), name)

\* the argument is one the model can follow through an operation of the
\* family: it is rejected, or its characteristic roots are numbers of the model
InModel(arg, name) == InModelParsed(ParseCoefficients(arg, name), name)

CoreArgs == ListArgs \cup OtherArgs \cup ShortStrArgs

TextArgs == ListArgs \cup OtherArgs \cup StrArgs

\* ---------------------------------------------------------- the list objects
\* heap: the list objects of the call in progress. objects[i] is the object
\* of reference i, the objects handed in by the caller first; out is the
\* reference a function has returned (0 when it raised); refs are the
\* references of the lists of coefficients held by the result of the call
\* (0 for an entry without one)
Heap(objects) == [objects |-> objects, out |-> 0, refs |-> << >>]

NoHeap == Heap(<< >>)

\* a reference as an element of a list
Ref(i) == [k |-> "ref", v |-> i]

\* a new list object
Alloc(h, elems) == [h EXCEPT !.objects = Append(@, Arg("list", elems))]

\* return of the newest object
ReturnNewest(h) == [h EXCEPT !.out = Len(h.objects)]

\* raise
Raised(h) == [h EXCEPT !.out = 0]

\* the result of the call holds the list returned
Held(h) == IF h.out = 0 THEN h ELSE [h EXCEPT !.refs = Append(@, h.out)]

\* _validate_coefficients from the copy on: coeffs is the newest object
ValidateCopied(h) ==
    IF h.objects[Len(h.objects)].elems = << >> THEN Raised(h)
    ELSE IF \E i \in 1..Len(h.objects[Len(h.objects)].elems) :
                ~PyFloat(h.objects[Len(h.objects)].elems[i]).ok
    THEN Raised(h)
    ELSE ReturnNewest(Alloc(h, [i \in 1..Len(h.objects[Len(h.objects)].elems) |->
                                   Num(PyFloat(h.objects[Len(h.objects)].elems[i]).v)]))

\* _validate_coefficients writing the floats into the list it was handed
ValidateObjectInPlace(h, coefficients) ==
    IF h.objects[coefficients].kind \notin {"list", "ndarray"} THEN Raised(h)
    ELSE IF h.objects[coefficients].elems = << >> THEN Raised(h)
    ELSE IF \E i \in 1..Len(h.objects[coefficients].elems) :
                ~PyFloat(h.objects[coefficients].elems[i]).ok
    THEN Raised(h)
    ELSE [h EXCEPT !.out = coefficients,
                   !.objects[coefficients].elems =
                       [i \in 1..Len(h.objects[coefficients].elems) |->
                           Num(PyFloat(h.objects[coefficients].elems[i]).v)]]

\* _validate_coefficients on the object of reference coefficients
ValidateObject(h, coefficients) ==
    IF h.objects[coefficients].kind \notin {"list", "ndarray"} THEN Raised(h)
    ELSE ValidateCopied(Alloc(h, h.objects[coefficients].elems))

\* poly_coeffs.extend(coefficients), poly_coeffs the newest object
Extend(h, coefficients) ==
    [h EXCEPT !.objects[Len(h.objects)].elems = @ \o h.objects[coefficients].elems]

\* _build_characteristic_polynomial
BuildObject(h, coefficients) == Extend(Alloc(h, <<Num(ROne)>>), coefficients)

\* negative_coeffs = [-c for c in coeffs]
NegativeObject(h, coeffs) ==
    Alloc(h, [i \in 1..Len(h.objects[coeffs].elems) |->
                 Num(RNeg(h.objects[coeffs].elems[i].v))])

\* stationarity_check / invertibility_check after the validation: the result
\* holds coeffs, the list the validation returned
CoreValidated(h, name) ==
    IF h.out = 0 THEN h
    ELSE IF name = "AR"
    THEN [BuildObject(NegativeObject(h, h.out), Len(h.objects) + 1) EXCEPT !.out = h.out]
    ELSE [BuildObject(h, h.out) EXCEPT !.out = h.out]

\* stationarity_check / invertibility_check
CoreObject(h, coefficients, name) ==
    CoreValidated(ValidateObject(h, coefficients), name)

\* check_ar_stationarity / check_ma_invertibility: the list parsed from a
\* str is a new object
CheckObject(h, coefficients, name) ==
    IF h.objects[coefficients].kind # "str" THEN CoreObject(h, coefficients, name)
    ELSE IF ParseCoefficients(h.objects[coefficients], name).exc # "none" THEN Raised(h)
    ELSE CoreObject(Alloc(h, ParseCoefficients(h.objects[coefficients], name).val.elems),
                    Len(h.objects) + 1, name)

\* analyze_ar_stability_margin / analyze_ma_invertibility_margin: the report
\* holds no list of coefficients
MarginObject(h, coefficients, name) == Raised(CoreObject(h, coefficients, name))

\* suggest_*_modifications after the classification: the report holds
\* result.ar_coefficients and, if there is one, the new list suggested
SuggestClassified(h, suggestions) ==
    IF h.out = 0 THEN h
    ELSE IF "suggested_coefficients" \in DOMAIN suggestions.val
    THEN Held(ReturnNewest(Alloc(Held(h),
             [i \in 1..Len(suggestions.val.suggested_coefficients) |->
                 Num(suggestions.val.suggested_coefficients[i])])))
    ELSE Held(h)

\* suggest_ar_modifications / suggest_ma_modifications
SuggestObject(h, coefficients, name, suggestions) ==
    SuggestClassified(CoreObject(h, coefficients, name), suggestions)

\* the objects handed to a batch function: the list of models (1), the names
\* (2) and the models (3 and up)
BatchObjects(models, model_names) ==
    Heap(<<Arg("list", [i \in 1..Len(models) |-> Ref(2 + i)]), model_names>> \o models)

\* the entry of one model after its classification: the margin analysis
\* classifies the model once more; the entry holds the coefficients of the
\* first classification, none when it raised
EntryClassified(h, coeffs, name) ==
    IF h.out = 0 THEN [h EXCEPT !.refs = Append(@, 0)]
    ELSE [MarginObject(h, coeffs, name) EXCEPT !.refs = Append(@, h.out)]

RECURSIVE BatchLoop(_, _, _)
\* the loop of a batch function from the i-th model on
BatchLoop(h, i, name) ==
    IF i > Len(h.objects[1].elems) THEN h
    ELSE BatchLoop(EntryClassified(CoreObject(h, h.objects[1].elems[i].v, name),
                                   h.objects[1].elems[i].v, name),
                   i + 1, name)

\* batch_stationarity_check / batch_invertibility_check with the names
\* checked: model_names = [...] is a new list
BatchNamed(h, names, name) ==
    IF Len(names) # Len(h.objects[1].elems) THEN Raised(h)
    ELSE IF h.objects[2].kind = "NoneType"
    THEN BatchLoop(Alloc(h, names), 1, name)
    ELSE BatchLoop(h, 1, name)

\* batch_stationarity_check / batch_invertibility_check / compare_ma_models
BatchObject(models, model_names, name) ==
    BatchNamed(BatchObjects(models, model_names), ModelNames(models, model_names), name)

\* ------------------------------------------------------------ state machine
\* call: the operation in progress ("none" between calls) and its argument;
\* ret: its outcome; self: the TSModelDiagnostic object of the caller;
\* heap: the list objects of the call
VARIABLES call, ret, self, heap

vars == <<call, ret, self, heap>>

Call(op, arg) == [op |-> op, arg |-> arg]

Idle == call.op = "none"

\* self.ar_result / self.ma_result: None, or the result stored
NoResult == << >>

Stored(result) == <<result>>

\* TSModelDiagnostic.__init__
TSModelDiagnostic == [ar_result |-> NoResult, ma_result |-> NoResult]

\* the coefficients handed to the methods of the object
DiagArgs ==
    {Arg("list", <<Num(Rat(1, 2))>>), Arg("list", <<Num(Rat(2, 1))>>),
     Arg("list", <<Num(Rat(1, 4))>>), Arg("list", << >>)}

\* the lists of models handed to the batch functions while the object holds
\* a result
SmallBatches == {<< >>} \cup {<<a>> : a \in DiagArgs}

SmallDicts == {<<ModelDict(a, Arg("NoneType", << >>))>> : a \in DiagArgs}

\* the inputs of a function: all of S while the object is as constructed,
\* the few of Small once it holds a result
Bounded(S, Small) == IF self = TSModelDiagnostic THEN S ELSE Small

Init ==
    /\ call = Call("none", Arg("NoneType", << >>))
    /\ ret = Return(<< >>)
    /\ self = TSModelDiagnostic
    /\ heap = NoHeap

\* suggest_ar_modifications or suggest_ma_modifications, by family
SuggestOf(name, coefficients) ==
    IF name = "AR" THEN SuggestArModifications(coefficients)
    ELSE SuggestMaModifications(coefficients)

\* the argument of a shrink-and-recheck loop: the family and the current
\* coefficients
LoopArg(name, elems) == [kind |-> "loop", elems |-> elems, family |-> name]

\* the vectors a shrink-and-recheck loop starts from: one number followed by
\* zeros
LoopArgs ==
    {Arg("list", <<Num(x)>> \o [i \in 1..n |-> Num(RZero)]) :
        x \in Numbers, n \in 0..(MaxLen - 1)}

\* a shrink-and-recheck loop is under way: suggest has asked for a
\* modification and has proposed coefficients
Rechecking ==
    /\ call.op = "shrink_and_recheck"
    /\ ret.exc = "none"
    /\ ret.val.is_modification_needed
    /\ "suggested_coefficients" \in DOMAIN ret.val

\* the caller has taken the outcome; the next call starts from scratch
done ==
    /\ ~Idle
    /\ ~Rechecking
    /\ call' = Call("none", Arg("NoneType", << >>))
    /\ ret' = Return(<< >>)
    /\ UNCHANGED self
    /\ heap' = NoHeap

\* a caller starts a shrink-and-recheck loop with a call of suggest
shrink_and_recheck ==
    /\ Idle
    /\ \E name \in {"AR", "MA"}, arg \in Bounded(LoopArgs, DiagArgs \ {Arg("list", << >>)}) :
           /\ call' = Call("shrink_and_recheck", LoopArg(name, arg.elems))
           /\ ret' = SuggestOf(name, arg)
    /\ UNCHANGED self
    /\ heap' = NoHeap

\* the loop goes on: suggest is called on the coefficients it has proposed
recheck ==
    /\ Rechecking
    /\ call' = Call("shrink_and_recheck",
                    LoopArg(call.arg.family,
                            [i \in 1..Len(ret.val.suggested_coefficients) |->
                                Num(ret.val.suggested_coefficients[i])]))
    /\ ret' = SuggestOf(call.arg.family,
                        Arg("list", [i \in 1..Len(ret.val.suggested_coefficients) |->
                                        Num(ret.val.suggested_coefficients[i])]))
    /\ UNCHANGED self
    /\ heap' = NoHeap

validate_coefficients ==
    /\ Idle
    /\ \E arg \in Bounded(CoreArgs, DiagArgs), name \in {"AR", "MA"} :
           /\ call' = Call("_validate_coefficients", arg)
           /\ ret' = ValidateCoefficients(arg, name)
           /\ heap' = Held(ValidateObject(Heap(<<arg>>), 1))
    /\ UNCHANGED self

stationarity_check ==
    /\ Idle
    /\ \E arg \in Bounded(CoreArgs, DiagArgs) :
           /\ InModel(arg, "AR")
           /\ call' = Call("stationarity_check", arg)
           /\ ret' = StationarityCheck(arg)
           /\ heap' = Held(CoreObject(Heap(<<arg>>), 1, "AR"))
    /\ UNCHANGED self

invertibility_check ==
    /\ Idle
    /\ \E arg \in Bounded(CoreArgs, DiagArgs) :
           /\ InModel(arg, "MA")
           /\ call' = Call("invertibility_check", arg)
           /\ ret' = InvertibilityCheck(arg)
           /\ heap' = Held(CoreObject(Heap(<<arg>>), 1, "MA"))
    /\ UNCHANGED self

check_ar_stationarity ==
    /\ Idle
    /\ \E arg \in Bounded(TextArgs, DiagArgs) :
           /\ InModel(arg, "AR")
           /\ call' = Call("check_ar_stationarity", arg)
           /\ ret' = CheckArStationarity(arg)
           /\ heap' = Held(CheckObject(Heap(<<arg>>), 1, "AR"))
    /\ UNCHANGED self

check_ma_invertibility ==
    /\ Idle
    /\ \E arg \in Bounded(TextArgs, DiagArgs) :
           /\ InModel(arg, "MA")
           /\ call' = Call("check_ma_invertibility", arg)
           /\ ret' = CheckMaInvertibility(arg)
           /\ heap' = Held(CheckObject(Heap(<<arg>>), 1, "MA"))
    /\ UNCHANGED self

analyze_ar_stability_margin ==
    /\ Idle
    /\ \E arg \in Bounded(CoreArgs, DiagArgs) :
           /\ InModel(arg, "AR")
           /\ call' = Call("analyze_ar_stability_margin", arg)
           /\ ret' = AnalyzeArStabilityMargin(arg)
           /\ heap' = MarginObject(Heap(<<arg>>), 1, "AR")
    /\ UNCHANGED self

analyze_ma_invertibility_margin ==
    /\ Idle
    /\ \E arg \in Bounded(CoreArgs, DiagArgs) :
           /\ InModel(arg, "MA")
           /\ call' = Call("analyze_ma_invertibility_margin", arg)
           /\ ret' = AnalyzeMaInvertibilityMargin(arg)
           /\ heap' = MarginObject(Heap(<<arg>>), 1, "MA")
    /\ UNCHANGED self

suggest_ar_modifications ==
    /\ Idle
    /\ \E arg \in Bounded(CoreArgs, DiagArgs) :
           /\ InModel(arg, "AR")
           /\ call' = Call("suggest_ar_modifications", arg)
           /\ ret' = SuggestArModifications(arg)
           /\ heap' = SuggestObject(Heap(<<arg>>), 1, "AR", SuggestArModifications(arg))
    /\ UNCHANGED self

suggest_ma_modifications ==
    /\ Idle
    /\ \E arg \in Bounded(CoreArgs, DiagArgs) :
           /\ InModel(arg, "MA")
           /\ call' = Call("suggest_ma_modifications", arg)
           /\ ret' = SuggestMaModifications(arg)
           /\ heap' = SuggestObject(Heap(<<arg>>), 1, "MA", SuggestMaModifications(arg))
    /\ UNCHANGED self

batch_stationarity_check ==
    /\ Idle
    /\ \E models \in Bounded(SeqsUpTo(BatchModels, MaxBatch), SmallBatches), model_names \in NameArgs :
           /\ \A i \in 1..Len(models) : InModel(models[i], "AR")
           /\ call' = Call("batch_stationarity_check", BatchArg(models, model_names))
           /\ ret' = BatchStationarityCheck(models, model_names)
           /\ heap' = BatchObject(models, model_names, "AR")
    /\ UNCHANGED self

batch_invertibility_check ==
    /\ Idle
    /\ \E models \in Bounded(SeqsUpTo(BatchModels, MaxBatch), SmallBatches), model_names \in NameArgs :
           /\ \A i \in 1..Len(models) : InModel(models[i], "MA")
           /\ call' = Call("batch_invertibility_check", BatchArg(models, model_names))
           /\ ret' = BatchInvertibilityCheck(models, model_names)
           /\ heap' = BatchObject(models, model_names, "MA")
    /\ UNCHANGED self

compare_ma_models ==
    /\ Idle
    /\ \E models \in Bounded(SeqsUpTo(BatchModels, MaxBatch), SmallBatches), model_names \in NameArgs :
           /\ \A i \in 1..Len(models) : InModel(models[i], "MA")
           /\ call' = Call("compare_ma_models", BatchArg(models, model_names))
           /\ ret' = CompareMaModels(models, model_names)
           /\ heap' = BatchObject(models, model_names, "MA")
    /\ UNCHANGED self

batch_model_analysis ==
    /\ Idle
    /\ \E models \in Bounded(SeqsUpTo(ModelDicts, MaxBatch), SmallDicts), model_names \in NameArgs :
           /\ \A i \in 1..Len(models) :
                  InModel(models[i].ar, "AR") /\ InModel(models[i].ma, "MA")
           /\ call' = Call("batch_model_analysis", BatchArg(models, model_names))
           /\ ret' = BatchModelAnalysis(models, model_names)
    /\ UNCHANGED self
    /\ heap' = NoHeap

\* self.ar_result after the AR check, a check that raises clearing the
\* stored result
SelfAfterArClearing(object, ar) ==
    IF ar.exc # "none" THEN [object EXCEPT !.ar_result = NoResult]
    ELSE [object EXCEPT !.ar_result = Stored(ar.val)]

\* self.ar_result after check_ar_stationarity has returned or raised
SelfAfterAr(object, ar) ==
    IF ar.exc # "none" THEN object
    ELSE [object EXCEPT !.ar_result = Stored(ar.val)]

\* self.ma_result after check_ma_invertibility has returned or raised
SelfAfterMa(object, ma) ==
    IF ma.exc # "none" THEN object
    ELSE [object EXCEPT !.ma_result = Stored(ma.val)]

\* check_arma_model: the AR check, then (if it returned) the MA check
SelfAfterArma(object, ar, ma) ==
    IF ar.exc # "none" THEN object
    ELSE SelfAfterMa(SelfAfterAr(object, ar), ma)

CheckArmaModel(ar, ma) ==
    IF ar.exc # "none" THEN ar
    ELSE IF ma.exc # "none" THEN ma
    ELSE Return(<<ar.val, ma.val>>)

\* the argument of check_arma_model
ArmaArg(ar_coefficients, ma_coefficients) ==
    [kind |-> "arma", elems |-> << >>, ar |-> ar_coefficients, ma |-> ma_coefficients]

NoKeys == [key \in {} |-> FALSE]

ArSummary(object) ==
    IF object.ar_result = NoResult THEN NoKeys
    ELSE [ar_stationary |-> object.ar_result[1].is_stationary,
          ar_coefficients |-> object.ar_result[1].ar_coefficients,
          ar_num_roots |-> Len(object.ar_result[1].roots)]

MaSummary(object) ==
    IF object.ma_result = NoResult THEN NoKeys
    ELSE [ma_invertible |-> object.ma_result[1].is_invertible,
          ma_coefficients |-> object.ma_result[1].ma_coefficients,
          ma_num_roots |-> Len(object.ma_result[1].roots)]

ArmaSummary(object) ==
    IF object.ar_result = NoResult THEN NoKeys
    ELSE IF object.ma_result = NoResult THEN NoKeys
    ELSE [arma_valid |-> object.ar_result[1].is_stationary
                             /\ object.ma_result[1].is_invertible]

GetSummary(object) ==
    Return([ar_checked |-> object.ar_result # NoResult,
            ma_checked |-> object.ma_result # NoResult]
               @@ ArSummary(object) @@ MaSummary(object) @@ ArmaSummary(object))

check_ar_model ==
    /\ Idle
    /\ \E coefficients \in DiagArgs :
           /\ InModel(coefficients, "AR")
           /\ call' = Call("check_ar_model", coefficients)
           /\ ret' = CheckArStationarity(coefficients)
           /\ self' = SelfAfterAr(self, CheckArStationarity(coefficients))
    /\ heap' = NoHeap

check_ma_model ==
    /\ Idle
    /\ \E coefficients \in DiagArgs :
           /\ InModel(coefficients, "MA")
           /\ call' = Call("check_ma_model", coefficients)
           /\ ret' = CheckMaInvertibility(coefficients)
           /\ self' = SelfAfterMa(self, CheckMaInvertibility(coefficients))
    /\ heap' = NoHeap

check_arma_model ==
    /\ Idle
    /\ \E ar_coefficients \in DiagArgs, ma_coefficients \in DiagArgs :
           /\ InModel(ar_coefficients, "AR")
           /\ InModel(ma_coefficients, "MA")
           /\ call' = Call("check_arma_model", ArmaArg(ar_coefficients, ma_coefficients))
           /\ ret' = CheckArmaModel(CheckArStationarity(ar_coefficients),
                                    CheckMaInvertibility(ma_coefficients))
           /\ self' = SelfAfterArma(self, CheckArStationarity(ar_coefficients),
                                    CheckMaInvertibility(ma_coefficients))
    /\ heap' = NoHeap

get_summary ==
    /\ Idle
    /\ call' = Call("get_summary", Arg("NoneType", << >>))
    /\ ret' = GetSummary(self)
    /\ UNCHANGED self
    /\ heap' = NoHeap

\* check_ar_stationarity or check_ma_invertibility, by family
CheckOf(name, coefficients) ==
    IF name = "AR" THEN CheckArStationarity(coefficients)
    ELSE CheckMaInvertibility(coefficients)

\* analyze_ar_stability_margin or analyze_ma_invertibility_margin, by family
AnalyzeOf(name, coefficients) ==
    IF name = "AR" THEN AnalyzeArStabilityMargin(coefficients)
    ELSE AnalyzeMaInvertibilityMargin(coefficients)

\* result.is_stationary or result.is_invertible
Passes(name, result) ==
    IF name = "AR" THEN result.is_stationary ELSE result.is_invertible

\* result.ar_coefficients or result.ma_coefficients, a list of floats
ResultCoefficients(name, result) ==
    Arg("list", IF name = "AR"
                THEN [i \in 1..Len(result.ar_coefficients) |-> Num(result.ar_coefficients[i])]
                ELSE [i \in 1..Len(result.ma_coefficients) |-> Num(result.ma_coefficients[i])])

\* sys.exit(code)
SysExit(code) == Raise("SystemExit", code)

\* the handler of every command catching what is not an Exception as well
ExceptBaseException(outcome) ==
    IF outcome.exc = "none" THEN outcome ELSE SysExit(2)

\* except Exception as e: ...; sys.exit(2). SystemExit is not an Exception
ExceptException(outcome) ==
    IF outcome.exc \in {"none", "SystemExit"} THEN outcome ELSE SysExit(2)

\* stationarity / invertibility, after the suggestions (if asked for)
CommandAfterSuggest(name, result, suggestions) ==
    IF suggestions.exc # "none" THEN suggestions
    ELSE SysExit(IF Passes(name, result) THEN 0 ELSE 1)

\* stationarity / invertibility, after the margin analysis (if asked for)
CommandAfterAnalysis(name, result, analysis, suggest) ==
    IF analysis.exc # "none" THEN analysis
    ELSE CommandAfterSuggest(name, result,
             IF suggest THEN SuggestOf(name, ResultCoefficients(name, result))
             ELSE Return(<< >>))

\* the body of the try of stationarity / invertibility
CommandBody(name, result, analysis, suggest) ==
    IF result.exc # "none" THEN result
    ELSE CommandAfterAnalysis(name, result.val,
             IF analysis THEN AnalyzeOf(name, ResultCoefficients(name, result.val))
             ELSE Return(<< >>),
             suggest)

\* the commands stationarity (name "AR") and invertibility (name "MA")
Command(name, coefficients, analysis, suggest) ==
    ExceptException(CommandBody(name, CheckOf(name, coefficients), analysis, suggest))

\* an option of check is given: not None and not the empty text
Given(option) == option.kind = "str" /\ option.elems # << >>

\* check: the check of one part, if its option is given
CheckPart(name, option) ==
    IF Given(option) THEN CheckOf(name, option) ELSE Return(<< >>)

\* check: all_passed
AllPassed(ar_coefficients, ma_coefficients, ar_result, ma_result) ==
    /\ IF Given(ar_coefficients) THEN ar_result.is_stationary ELSE TRUE
    /\ IF Given(ma_coefficients) THEN ma_result.is_invertible ELSE TRUE

\* the body of the try of check
CheckBody(ar_coefficients, ma_coefficients, ar_result, ma_result) ==
    IF ar_result.exc # "none" THEN ar_result
    ELSE IF ma_result.exc # "none" THEN ma_result
    ELSE SysExit(IF AllPassed(ar_coefficients, ma_coefficients,
                              ar_result.val, ma_result.val) THEN 0 ELSE 1)

\* the command check
Check(ar_coefficients, ma_coefficients) ==
    IF ~Given(ar_coefficients) /\ ~Given(ma_coefficients) THEN SysExit(2)
    ELSE ExceptException(CheckBody(ar_coefficients, ma_coefficients,
                                   CheckPart("AR", ar_coefficients),
                                   CheckPart("MA", ma_coefficients)))

\* the arguments of stationarity / invertibility
CommandArg(coefficients, analysis, suggest) ==
    [kind |-> "command", elems |-> coefficients.elems,
     analysis |-> analysis, suggest |-> suggest]

\* the values of an option of check: not given, or a short text
CheckOptions ==
    {Arg("NoneType", << >>), Arg("str", <<".", "1">>)}
        \cup {Arg("str", e) : e \in SeqsUpTo(Chars, 1)}

\* tsdiag stationarity -c coefficients [--analysis] [--suggest]
stationarity ==
    /\ Idle
    /\ \E coefficients \in Bounded(ShortStrArgs, {}), analysis \in BOOLEAN, suggest \in BOOLEAN :
           /\ InModel(coefficients, "AR")
           /\ call' = Call("stationarity", CommandArg(coefficients, analysis, suggest))
           /\ ret' = Command("AR", coefficients, analysis, suggest)
    /\ UNCHANGED self
    /\ heap' = NoHeap

\* tsdiag invertibility -c coefficients [--analysis] [--suggest]
invertibility ==
    /\ Idle
    /\ \E coefficients \in Bounded(ShortStrArgs, {}), analysis \in BOOLEAN, suggest \in BOOLEAN :
           /\ InModel(coefficients, "MA")
           /\ call' = Call("invertibility", CommandArg(coefficients, analysis, suggest))
           /\ ret' = Command("MA", coefficients, analysis, suggest)
    /\ UNCHANGED self
    /\ heap' = NoHeap

\* tsdiag check [--ar ar_coefficients] [--ma ma_coefficients]
check ==
    /\ Idle
    /\ \E ar_coefficients \in Bounded(CheckOptions, {}),
          ma_coefficients \in Bounded(CheckOptions, {}) :
           /\ InModel(ar_coefficients, "AR")
           /\ InModel(ma_coefficients, "MA")
           /\ call' = Call("check", ArmaArg(ar_coefficients, ma_coefficients))
           /\ ret' = Check(ar_coefficients, ma_coefficients)
    /\ UNCHANGED self
    /\ heap' = NoHeap

Next ==
    \/ validate_coefficients
    \/ stationarity_check
    \/ invertibility_check
    \/ check_ar_stationarity
    \/ check_ma_invertibility
    \/ analyze_ar_stability_margin
    \/ analyze_ma_invertibility_margin
    \/ suggest_ar_modifications
    \/ suggest_ma_modifications
    \/ batch_stationarity_check
    \/ batch_invertibility_check
    \/ compare_ma_models
    \/ batch_model_analysis
    \/ shrink_and_recheck
    \/ recheck
    \/ check_ar_model
    \/ check_ma_model
    \/ check_arma_model
    \/ get_summary
    \/ stationarity
    \/ invertibility
    \/ check
    \/ done

Spec == Init /\ [][Next]_vars

\* ------------------------------------------------------------------ claims
\* the operations that return a classification result, by family
ArClassifiers == {"stationarity_check", "check_ar_stationarity"}

MaClassifiers == {"invertibility_check", "check_ma_invertibility"}

\* a classification has returned a result
Classified == call.op \in ArClassifiers \cup MaClassifiers /\ ret.exc = "none"

IsAr == call.op \in ArClassifiers

Verdict == IF IsAr THEN ret.val.is_stationary ELSE ret.val.is_invertible

Coefficients == IF IsAr THEN ret.val.ar_coefficients ELSE ret.val.ma_coefficients

Roots == ret.val.roots

Inside == {i \in 1..Len(Roots) : ~Roots[i].is_outside_unit_circle}

\* 1 + 1e-10
OnePlusTol == RMake(<<1, 1>>, <<0, 1>>)

\* C1: in every classification result the verdict is true exactly when every
\* returned root is flagged outside the unit circle (true without roots),
\* and a false verdict's message reports the number of roots flagged not
\* outside, which is at least 1.
C1_VerdictIsAllOutside ==
    Classified =>
        /\ Verdict = (Inside = {})
        /\ Verdict => ret.val.message.args = << >>
        /\ ~Verdict => /\ ret.val.message.args = <<Cardinality(Inside)>>
                       /\ Cardinality(Inside) >= 1

\* a failing model with two roots of which exactly one is not outside
C1_Witness ==
    /\ Classified
    /\ ~Verdict
    /\ Len(Roots) = 2
    /\ ret.val.message.args = <<1>>

\* C2: every returned root has a non-negative magnitude and is flagged
\* outside exactly when its magnitude exceeds 1 + 1e-10; the order-1 model
\* with coefficient exactly 1.0 has one root of magnitude 1.0, flagged not
\* outside, and a false verdict.
C2_OutsideIffBeyondTolerance ==
    Classified =>
        /\ \A i \in 1..Len(Roots) :
              /\ RGe(Roots[i].magnitude, RZero)
              /\ Roots[i].is_outside_unit_circle <=> RGt(Roots[i].magnitude, OnePlusTol)
        /\ Coefficients = <<ROne>> =>
              /\ Len(Roots) = 1
              /\ Roots[1].magnitude = ROne
              /\ ~Roots[1].is_outside_unit_circle
              /\ ~Verdict

\* the unit root: coefficient exactly 1.0, a root of magnitude 1.0
C2_Witness ==
    /\ Classified
    /\ Coefficients = <<ROne>>
    /\ Len(Roots) = 1
    /\ Roots[1].magnitude = ROne
    /\ ~Verdict

\* an order-1 model has been classified
Order1 == Classified /\ Len(Coefficients) = 1

\* C3 as stated: every order-1 model with |c| < 1 has a true verdict and a
\* single root of magnitude 1/|c|.
C3_Original ==
    (Order1 /\ RLt(RAbs(Coefficients[1]), ROne)) =>
        /\ Verdict
        /\ Len(Roots) = 1
        /\ REq(Roots[1].magnitude, RDiv(ROne, RAbs(Coefficients[1])))

\* C3 amended: an order-1 model with 0 < |c| < 1 has a single root of
\* magnitude 1/|c|, and its verdict is true exactly when that magnitude
\* exceeds 1 + 1e-10; the model with c = 0 has no root and a true verdict.
C3_Order1InsideUnitInterval ==
    (Order1 /\ RLt(RAbs(Coefficients[1]), ROne)) =>
        IF RSign(Coefficients[1]) = 0
        THEN Roots = << >> /\ Verdict
        ELSE /\ Len(Roots) = 1
             /\ REq(Roots[1].magnitude, RDiv(ROne, RAbs(Coefficients[1])))
             /\ Verdict <=> RGt(RDiv(ROne, RAbs(Coefficients[1])), OnePlusTol)

\* coefficient -0.5 or 0.5: one root of magnitude 2, verdict true
C3_Witness ==
    /\ Order1
    /\ RAbs(Coefficients[1]) = Rat(1, 2)
    /\ Len(Roots) = 1
    /\ Roots[1].magnitude = Rat(2, 1)
    /\ Verdict

\* C4: every order-1 model with |c| > 1 has a false verdict and one root, of
\* magnitude below 1, flagged not outside the unit circle.
C4_Order1OutsideUnitInterval ==
    (Order1 /\ RGt(RAbs(Coefficients[1]), ROne)) =>
        /\ ~Verdict
        /\ Len(Roots) = 1
        /\ RLt(Roots[1].magnitude, ROne)
        /\ ~Roots[1].is_outside_unit_circle

\* coefficient 2 or -2: one root of magnitude 0.5, verdict false
C4_Witness ==
    /\ Order1
    /\ RAbs(Coefficients[1]) = Rat(2, 1)
    /\ Len(Roots) = 1
    /\ Roots[1].magnitude = Rat(1, 2)
    /\ ~Verdict

\* the place of the last non-zero coefficient (0 when all are zero)
LastNonZero(coeffs) ==
    IF \A i \in 1..Len(coeffs) : RSign(coeffs[i]) = 0 THEN 0
    ELSE SetMax({i \in 1..Len(coeffs) : RSign(coeffs[i]) # 0})

\* C5 as stated: a classification of a coefficient vector of length n carries
\* exactly n roots (its polynomial has length n + 1), also when trailing
\* coefficients are zero.
C5_Original ==
    Classified =>
        /\ Len(ret.val.characteristic_polynomial) = Len(Coefficients) + 1
        /\ Len(Roots) = Len(Coefficients)

\* C5 amended: the classification carries one root per degree of the
\* polynomial, repeated roots as separate entries: as many roots as the place
\* of the last non-zero coefficient, which is n exactly when the last
\* coefficient is non-zero and 0 when all coefficients are zero.
C5_RootCountIsDegree ==
    Classified =>
        /\ Len(ret.val.characteristic_polynomial) = Len(Coefficients) + 1
        /\ Len(Roots) = LastNonZero(Coefficients)

\* two coefficients, the second zero: one root
C5_Witness ==
    /\ Classified
    /\ Len(Coefficients) = 2
    /\ RSign(Coefficients[1]) # 0
    /\ RSign(Coefficients[2]) = 0
    /\ Len(Roots) = 1

\* C6: the characteristic polynomial of a result has length n + 1, first
\* element 1.0, and element i + 1 equal to -c[i] for AR and to c[i] for MA.
C6_PolynomialOfCoefficients ==
    Classified =>
        /\ Len(ret.val.characteristic_polynomial) = Len(Coefficients) + 1
        /\ ret.val.characteristic_polynomial[1] = ROne
        /\ \A i \in 1..Len(Coefficients) :
              ret.val.characteristic_polynomial[i + 1] =
                  IF IsAr THEN RNeg(Coefficients[i]) ELSE Coefficients[i]

\* an AR model of two non-zero coefficients
C6_Witness ==
    /\ Classified
    /\ IsAr
    /\ Len(Coefficients) = 2
    /\ RSign(Coefficients[1]) > 0
    /\ RSign(Coefficients[2]) > 0
    /\ ret.val.characteristic_polynomial[2] = RNeg(Coefficients[1])

\* the argument is a list or a numpy array
SequenceArg == call.arg.kind \in {"list", "ndarray"}

\* the items float() converts: the numbers and the numeral "2"
Convertible(e) == e.k = "num" \/ e = Str(<<"2">>)

FloatOf(e) == IF e.k = "num" THEN e.v ELSE Rat(2, 1)

FloatsOf(elems) == [i \in 1..Len(elems) |-> FloatOf(elems[i])]

Suggesters == {"suggest_ar_modifications", "suggest_ma_modifications"}

\* C7: on a list or array the validator, and every operation on one model
\* built on it, fails with a ValueError when the input is empty or has an
\* element that does not convert to a float; otherwise it returns the floats
\* of the elements, numeric strings converted, in the same number and order.
C7_ValidatorValueError ==
    (~Idle /\ SequenceArg) =>
        IF \/ call.arg.elems = << >>
           \/ \E i \in 1..Len(call.arg.elems) : ~Convertible(call.arg.elems[i])
        THEN ret.exc = "ValueError"
        ELSE /\ ret.exc = "none"
             /\ call.op = "_validate_coefficients" => ret.val = FloatsOf(call.arg.elems)
             /\ Classified => Coefficients = FloatsOf(call.arg.elems)
             /\ call.op \in Suggesters =>
                    ret.val.original_coefficients = FloatsOf(call.arg.elems)

\* the validator has returned the floats of a number and a numeric string
C7_Witness ==
    /\ call.op = "_validate_coefficients"
    /\ call.arg = Arg("list", <<Num(Rat(1, 2)), Str(<<"2">>)>>)
    /\ ret = Return(<<Rat(1, 2), Rat(2, 1)>>)

\* every element of the argument is a number
NumericArg ==
    /\ call.arg.elems # << >>
    /\ \A i \in 1..Len(call.arg.elems) : call.arg.elems[i].k = "num"

Validated == call.op = "_validate_coefficients"

\* C8 as stated: the validator accepts every sequence of numbers and fails
\* with a TypeError exactly when the input is neither a sequence nor a string.
C8_Original ==
    Validated =>
        /\ ret.exc = "TypeError" <=>
               call.arg.kind \notin {"list", "ndarray", "tuple", "str"}
        /\ (call.arg.kind \in {"list", "ndarray", "tuple"} /\ NumericArg) =>
               ret.exc = "none"

\* C8 amended: the validator accepts every list and every numpy array of
\* numbers, and fails with a TypeError exactly when the input is not a list
\* or a numpy array: also for a tuple and for a string.
C8_TypeErrorUnlessListOrArray ==
    Validated =>
        /\ ret.exc = "TypeError" <=> call.arg.kind \notin {"list", "ndarray"}
        /\ (SequenceArg /\ NumericArg) => ret = Return(FloatsOf(call.arg.elems))

\* the validator has refused a tuple of numbers
C8_Witness ==
    /\ Validated
    /\ call.arg.kind = "tuple"
    /\ NumericArg
    /\ ret.exc = "TypeError"

\* numerals and the numbers they denote
Numerals ==
    {[text |-> <<"1">>, v |-> ROne],
     [text |-> <<"2">>, v |-> Rat(2, 1)],
     [text |-> <<"-", "1">>, v |-> Rat(-1, 1)],
     [text |-> <<"-", "2">>, v |-> Rat(-2, 1)],
     [text |-> <<".", "2">>, v |-> Rat(1, 5)],
     [text |-> <<".", "1">>, v |-> Rat(1, 10)],
     [text |-> <<"2", ".">>, v |-> Rat(2, 1)],
     [text |-> <<"1", ".", "2">>, v |-> Rat(6, 5)],
     [text |-> <<"-", ".", "2">>, v |-> Rat(-1, 5)]}

\* a comma, a blank, and the two mixed
Separators == {<<",">>, <<" ">>, <<",", " ">>, <<" ", ",">>}

TextChecks == {"check_ar_stationarity", "check_ma_invertibility"}

\* the result of the check_* operation called on a list
CheckOfList(op, elems) ==
    IF op = "check_ar_stationarity"
    THEN CheckArStationarity(Arg("list", elems))
    ELSE CheckMaInvertibility(Arg("list", elems))

\* a text with a token that is no float: one with a letter, or one that ends
\* with a sign
BadText(chars) ==
    \E i \in 1..Len(chars) :
        \/ chars[i] = "x"
        \/ /\ chars[i] = "-"
           /\ IF i = Len(chars) THEN TRUE ELSE chars[i + 1] \in {",", " "}

\* C9: check_ar_stationarity and check_ma_invertibility called on a text of
\* numerals separated by commas, blanks or both return the result of the
\* call on the list of the numbers; a text with a token that is no float
\* fails with a ValueError that carries the input text.
C9_TextEqualsList ==
    (call.op \in TextChecks /\ call.arg.kind = "str") =>
        /\ \A a \in Numerals :
              call.arg.elems = a.text =>
                  /\ ret.exc = "none"
                  /\ Coefficients = <<a.v>>
                  /\ ret = CheckOfList(call.op, <<Num(a.v)>>)
        /\ \A a, b \in Numerals : \A sep \in Separators :
              call.arg.elems = a.text \o sep \o b.text =>
                  /\ ret.exc = "none"
                  /\ Coefficients = <<a.v, b.v>>
                  /\ ret = CheckOfList(call.op, <<Num(a.v), Num(b.v)>>)
        /\ BadText(call.arg.elems) =>
              /\ ret.exc = "ValueError"
              /\ ret.val.text = "cannot parse coefficient string"
              /\ ret.val.args = call.arg.elems

\* the text "1, 2" has been classified as the list [1.0, 2.0]
C9_Witness ==
    /\ call.op = "check_ar_stationarity"
    /\ call.arg = Arg("str", <<"1", ",", " ", "2">>)
    /\ ret.exc = "none"
    /\ Coefficients = <<ROne, Rat(2, 1)>>
    /\ ~Verdict

Analyzers == {"analyze_ar_stability_margin", "analyze_ma_invertibility_margin"}

Batches == {"batch_stationarity_check", "batch_invertibility_check"}

\* the result of an operation on one model called on a list
OperationOfList(op, elems) ==
    CASE op = "check_ar_stationarity" -> CheckArStationarity(Arg("list", elems))
      [] op = "check_ma_invertibility" -> CheckMaInvertibility(Arg("list", elems))
      [] op = "analyze_ar_stability_margin" -> AnalyzeArStabilityMargin(Arg("list", elems))
      [] op = "analyze_ma_invertibility_margin" ->
             AnalyzeMaInvertibilityMargin(Arg("list", elems))
      [] op = "suggest_ar_modifications" -> SuggestArModifications(Arg("list", elems))
      [] op = "suggest_ma_modifications" -> SuggestMaModifications(Arg("list", elems))

\* the entries of a batch operation called on lists
BatchOfLists(op, models, model_names) ==
    IF op = "batch_stationarity_check"
    THEN BatchStationarityCheck(models, model_names)
    ELSE BatchInvertibilityCheck(models, model_names)

\* the list of the number a one-token text denotes, any other model as it is
AsList(model) ==
    IF model.kind = "str" /\ \E a \in Numerals : a.text = model.elems
    THEN Arg("list", <<Num((CHOOSE a \in Numerals : a.text = model.elems).v)>>)
    ELSE model

\* C10 as stated: classify, margin report, suggest and batch classify called
\* on the text of a number return what they return on the list of the number.
C10_Original ==
    /\ (call.op \in TextChecks \cup Analyzers \cup Suggesters /\ call.arg.kind = "str") =>
           \A a \in Numerals :
               call.arg.elems = a.text => ret = OperationOfList(call.op, <<Num(a.v)>>)
    /\ call.op \in Batches =>
           ret = BatchOfLists(call.op, [i \in 1..Len(call.arg.elems) |->
                                           AsList(call.arg.elems[i])],
                              call.arg.names)

\* C10 amended: only classify (check_ar_stationarity, check_ma_invertibility)
\* takes a text, and returns on it what it returns on the list; margin
\* report and suggest fail with a TypeError on every text, and batch classify
\* records that TypeError in the error of the entry of every model given as
\* a text, with a false verdict.
C10_OnlyClassifyTakesText ==
    /\ (call.op \in TextChecks /\ call.arg.kind = "str") =>
           \A a \in Numerals :
               call.arg.elems = a.text =>
                   ret.exc = "none" /\ ret = OperationOfList(call.op, <<Num(a.v)>>)
    /\ (call.op \in Analyzers \cup Suggesters /\ call.arg.kind = "str") =>
           /\ ret.exc = "TypeError"
           /\ ret.val.text = "must be a list or numpy array"
    /\ (call.op \in Batches /\ ret.exc = "none") =>
           \A i \in 1..Len(call.arg.elems) :
               call.arg.elems[i].kind = "str" =>
                   /\ "error" \in DOMAIN ret.val[i]
                   /\ ret.val[i].error.text = "must be a list or numpy array"
                   /\ ret.val[i].result = None
                   /\ IF call.op = "batch_stationarity_check"
                      THEN ~ret.val[i].is_stationary
                      ELSE ~ret.val[i].is_invertible

\* the margin report has refused the text "1"
C10_Witness ==
    /\ call.op = "analyze_ar_stability_margin"
    /\ call.arg = Arg("str", <<"1">>)
    /\ ret.exc = "TypeError"

\* a margin report has been returned
Reported == call.op \in Analyzers /\ ret.exc = "none"

\* the roots of the classification of the model of the report
ReportRoots ==
    IF call.op = "analyze_ar_stability_margin"
    THEN StationarityCheck(call.arg).val.roots
    ELSE InvertibilityCheck(call.arg).val.roots

Margin ==
    IF call.op = "analyze_ar_stability_margin"
    THEN ret.val.stability_margin
    ELSE ret.val.invertibility_margin

\* the places of the roots whose distance magnitude - 1.0 is the margin
Closest == {i \in 1..Len(ReportRoots) : REq(RSub(ReportRoots[i].magnitude, ROne), Margin)}

\* C11: for every model with at least one root the margin of the margin
\* report, and its min_distance_to_unit_circle, is the least magnitude - 1.0
\* over the roots, and closest_root is the first root, in the order of the
\* solver, that attains it.
C11_MarginIsLeastDistance ==
    (Reported /\ ReportRoots # << >>) =>
        /\ \A i \in 1..Len(ReportRoots) :
               RLe(Margin, RSub(ReportRoots[i].magnitude, ROne))
        /\ Closest # {}
        /\ ret.val.min_distance_to_unit_circle = Margin
        /\ ret.val.closest_root = ReportRoots[SetMin(Closest)]
        /\ ret.val.all_distances =
               [i \in 1..Len(ReportRoots) |-> RSub(ReportRoots[i].magnitude, ROne)]

\* two different roots of the same magnitude: the first is the closest root
C11_Witness ==
    /\ Reported
    /\ Len(ReportRoots) = 2
    /\ Closest = {1, 2}
    /\ ReportRoots[1] # ReportRoots[2]
    /\ ret.val.closest_root = ReportRoots[1]

\* C12: in every margin report, of AR and of MA, the risk tier follows from
\* the margin alone: 'high' exactly when margin <= 0, 'medium' exactly when
\* 0 < margin < 0.1, 'low' exactly when margin >= 0.1, +infinity included.
C12_RiskTierOfMargin ==
    Reported =>
        /\ ret.val.risk_level \in {"high", "medium", "low"}
        /\ ret.val.risk_level = "high" <=> RLe(Margin, RZero)
        /\ ret.val.risk_level = "medium" <=>
               (RGt(Margin, RZero) /\ RLt(Margin, Rat(1, 10)))
        /\ ret.val.risk_level = "low" <=> RGe(Margin, Rat(1, 10))
        /\ Margin = RInf => ret.val.risk_level = "low"

\* a unit root: margin 0, tier 'high'
C12_Witness ==
    /\ Reported
    /\ REq(Margin, RZero)
    /\ ret.val.risk_level = "high"

\* C13: a classification without roots, as that of [0.0], has a true verdict,
\* and its margin report has margin +infinity, risk tier 'low' and no
\* closest root.
C13_NoRoots ==
    /\ (Classified /\ Roots = << >>) => Verdict
    /\ (Reported /\ ReportRoots = << >>) =>
           /\ Margin = RInf
           /\ ret.val.min_distance_to_unit_circle = RInf
           /\ ret.val.risk_level = "low"
           /\ ret.val.closest_root = None

\* the margin report of [0.0]
C13_Witness ==
    /\ Reported
    /\ call.arg = Arg("list", <<Num(RZero)>>)
    /\ ReportRoots = << >>
    /\ Margin = RInf
    /\ ret.val.closest_root = None

\* suggestions have been returned
Suggested == call.op \in Suggesters /\ ret.exc = "none"

SuggestsAr == call.op = "suggest_ar_modifications"

\* the verdict of the classification of a list of numbers, in the family of
\* the suggest operation called
VerdictOfList(coeffs) ==
    IF SuggestsAr
    THEN StationarityCheck(Arg("list", [i \in 1..Len(coeffs) |-> Num(coeffs[i])])).val.is_stationary
    ELSE InvertibilityCheck(Arg("list", [i \in 1..Len(coeffs) |-> Num(coeffs[i])])).val.is_invertible

\* the verdict of the classification of the argument of the suggest operation
VerdictOfArg ==
    IF SuggestsAr
    THEN StationarityCheck(call.arg).val.is_stationary
    ELSE InvertibilityCheck(call.arg).val.is_invertible

\* C14: when the verdict holds for the input, suggest reports
\* is_modification_needed = false with the one message 'no modification
\* needed' and no suggested coefficients; and whenever suggest reports that
\* no modification is needed, the classification of original_coefficients
\* has a true verdict.
C14_NoModificationIffVerdict ==
    Suggested =>
        /\ VerdictOfArg =>
               /\ ~ret.val.is_modification_needed
               /\ Len(ret.val.suggestions) = 1
               /\ ret.val.suggestions[1].text = "no modification needed"
               /\ "suggested_coefficients" \notin DOMAIN ret.val
        /\ ~ret.val.is_modification_needed =>
               VerdictOfList(ret.val.original_coefficients)

\* suggest on [0.5]: no modification needed
C14_Witness ==
    /\ Suggested
    /\ call.arg = Arg("list", <<Num(Rat(1, 2))>>)
    /\ ~ret.val.is_modification_needed
    /\ DOMAIN ret.val = {"is_modification_needed", "original_coefficients", "suggestions"}

\* C15: for a failing model of order 1 whose coefficient c has |c| >= 1,
\* suggest proposes exactly one coefficient, 0.95 * sign(c): of the sign of
\* c, of magnitude below 1, and with a true verdict when classified.
C15_Order1Suggestion ==
    (/\ Suggested
     /\ Len(ret.val.original_coefficients) = 1
     /\ RGe(RAbs(ret.val.original_coefficients[1]), ROne)) =>
        /\ ret.val.is_modification_needed
        /\ "suggested_coefficients" \in DOMAIN ret.val
        /\ Len(ret.val.suggested_coefficients) = 1
        /\ REq(ret.val.suggested_coefficients[1],
               IF RSign(ret.val.original_coefficients[1]) > 0
               THEN Rat(95, 100) ELSE Rat(-95, 100))
        /\ RSign(ret.val.suggested_coefficients[1]) =
               RSign(ret.val.original_coefficients[1])
        /\ RLt(RAbs(ret.val.suggested_coefficients[1]), ROne)
        /\ VerdictOfList(ret.val.suggested_coefficients)

\* suggest on [-2.0] proposes [-0.95]
C15_Witness ==
    /\ Suggested
    /\ ret.val.original_coefficients = <<Rat(-2, 1)>>
    /\ "suggested_coefficients" \in DOMAIN ret.val
    /\ REq(ret.val.suggested_coefficients[1], Rat(-95, 100))

\* C16: for a failing model of two or more coefficients suggest proposes a
\* vector of the same length, each coefficient 0.9 times the original one in
\* the same place, and reports original_coefficients unchanged.
C16_ScaledSuggestion ==
    (/\ Suggested
     /\ ret.val.is_modification_needed
     /\ Len(ret.val.original_coefficients) >= 2) =>
        /\ "suggested_coefficients" \in DOMAIN ret.val
        /\ Len(ret.val.suggested_coefficients) = Len(ret.val.original_coefficients)
        /\ \A i \in 1..Len(ret.val.original_coefficients) :
               /\ REq(ret.val.suggested_coefficients[i],
                      RMul(Rat(9, 10), ret.val.original_coefficients[i]))
               /\ RSign(ret.val.suggested_coefficients[i]) =
                      RSign(ret.val.original_coefficients[i])
        /\ SequenceArg => ret.val.original_coefficients = FloatsOf(call.arg.elems)

\* suggest on the failing [1.0, 2.0] proposes [0.9, 1.8]
C16_Witness ==
    /\ Suggested
    /\ ret.val.original_coefficients = <<ROne, Rat(2, 1)>>
    /\ ret.val.is_modification_needed
    /\ ret.val.suggested_coefficients = <<Rat(9, 10), Rat(9, 5)>>

\* a batch operation has returned its entries
Batched == call.op \in Batches /\ ret.exc = "none"

BatchesAr == call.op = "batch_stationarity_check"

\* the analysis of a model of a batch fails
Fails(model) ==
    IF BatchesAr THEN StationarityCheck(model).exc # "none"
    ELSE InvertibilityCheck(model).exc # "none"

EntryVerdict(e) == IF BatchesAr THEN e.is_stationary ELSE e.is_invertible

\* the name of the entry at place i
NameAt(i) ==
    IF call.arg.names.kind = "NoneType" THEN <<"Model_", i>>
    ELSE call.arg.names.elems[i]

\* s without its element at place k
RemoveAt(s, k) == [i \in 1..(Len(s) - 1) |-> IF i < k THEN s[i] ELSE s[i + 1]]

\* the names without the name at place k
NamesWithout(model_names, k) ==
    IF model_names.kind = "NoneType" THEN model_names
    ELSE Arg("list", RemoveAt(model_names.elems, k))

\* the entries of the batch called without the model at place k
EntriesWithout(k) ==
    BatchOfLists(call.op, RemoveAt(call.arg.elems, k),
                 NamesWithout(call.arg.names, k)).val

\* an entry without its place and its name
Unplaced(e) == [e EXCEPT !.model_index = 0, !.model_name = ""]

\* the entries have the number, the order, the places and the names of the
\* models, and a model whose analysis fails has an entry with an error and
\* a false verdict
EntriesInOrder ==
    /\ Len(ret.val) = Len(call.arg.elems)
    /\ \A i \in 1..Len(ret.val) :
           /\ ret.val[i].model_index = i - 1
           /\ ret.val[i].model_name = NameAt(i)
           /\ "error" \in DOMAIN ret.val[i] <=> Fails(call.arg.elems[i])
           /\ Fails(call.arg.elems[i]) =>
                  /\ ~EntryVerdict(ret.val[i])
                  /\ ret.val[i].coefficients = None
                  /\ ret.val[i].result = None

\* C17 as stated: a batch over n models returns n entries in the order of
\* the input, entry i with model_index i and the i-th name; a model whose
\* analysis fails has an entry with an error and a false verdict, and the
\* entries of the other models are those of the batch without that model.
C17_Original ==
    Batched =>
        /\ EntriesInOrder
        /\ \A k \in 1..Len(ret.val) :
               Fails(call.arg.elems[k]) =>
                   \A j \in 1..(Len(ret.val) - 1) :
                       EntriesWithout(k)[j] = ret.val[IF j < k THEN j ELSE j + 1]

\* C17 amended: as stated, except that the entries of the other models are
\* those of the batch without the failing model up to their place: an entry
\* after the failing model has a model_index larger by one, and the default
\* name of that index.
C17_BatchIsolatesFailures ==
    Batched =>
        /\ EntriesInOrder
        /\ \A k \in 1..Len(ret.val) :
               Fails(call.arg.elems[k]) =>
                   \A j \in 1..(Len(ret.val) - 1) :
                       /\ Unplaced(EntriesWithout(k)[j]) =
                              Unplaced(ret.val[IF j < k THEN j ELSE j + 1])
                       /\ j < k => EntriesWithout(k)[j] = ret.val[j]
                       /\ j >= k =>
                              EntriesWithout(k)[j].model_index + 1 =
                                  ret.val[j + 1].model_index

\* a batch of an empty model and of [0.5] under the default names
C17_Witness ==
    /\ Batched
    /\ call.arg.elems = <<Arg("list", << >>), Arg("list", <<Num(Rat(1, 2))>>)>>
    /\ call.arg.names.kind = "NoneType"
    /\ "error" \in DOMAIN ret.val[1]
    /\ "error" \notin DOMAIN ret.val[2]
    /\ ret.val[2].model_index = 1
    /\ ret.val[2].model_name = <<"Model_", 2>>

\* a comparison has been returned
Compared == call.op = "compare_ma_models" /\ ret.exc = "none"

\* the places of the successfully analysed models of a comparison
Analysed ==
    {i \in 1..Len(ret.val.all_results) :
        "invertibility_margin" \in DOMAIN ret.val.all_results[i]}

MarginAt(i) == ret.val.all_results[i].invertibility_margin

\* the places of the largest and of the least margin
Largest == {i \in Analysed : \A j \in Analysed : RGe(MarginAt(i), MarginAt(j))}

Least == {i \in Analysed : \A j \in Analysed : RLe(MarginAt(i), MarginAt(j))}

\* C19: compare_ma_models ranks the successfully analysed models, and only
\* them, by descending margin, models of equal margin in the order of the
\* input: best_model is the first model of the largest margin and
\* worst_model the last model of the least margin among them (none of both
\* when no model was analysed).
C19_BestAndWorstOfRanking ==
    Compared =>
        IF Analysed = {}
        THEN ret.val.best_model = None /\ ret.val.worst_model = None
        ELSE /\ ret.val.best_model = ret.val.all_results[SetMin(Largest)]
             /\ ret.val.worst_model = ret.val.all_results[SetMax(Least)]
             /\ \A j \in Analysed :
                    /\ RGe(ret.val.best_model.invertibility_margin, MarginAt(j))
                    /\ RLe(ret.val.worst_model.invertibility_margin, MarginAt(j))

\* two analysed models of the same margin: the first is the best model, the
\* second the worst
C19_Witness ==
    /\ Compared
    /\ Analysed = {1, 2}
    /\ REq(MarginAt(1), MarginAt(2))
    /\ ret.val.best_model.model_index = 0
    /\ ret.val.worst_model.model_index = 1

\* C20: in every comparison a model with a true verdict has a strictly
\* larger margin than every analysed model with a false verdict; so the
\* verdict of best_model is true when some model passes, and the verdict of
\* worst_model is false when some analysed model fails.
C20_PassingAboveFailing ==
    Compared =>
        /\ \A i, j \in Analysed :
               (/\ ret.val.all_results[i].is_invertible
                /\ ~ret.val.all_results[j].is_invertible) =>
                   RGt(MarginAt(i), MarginAt(j))
        /\ (\E i \in 1..Len(ret.val.all_results) : ret.val.all_results[i].is_invertible) =>
               ret.val.best_model.is_invertible
        /\ (\E j \in Analysed : ~ret.val.all_results[j].is_invertible) =>
               ~ret.val.worst_model.is_invertible

\* a failing model of a positive margin compared with a passing model
C20_Witness ==
    /\ Compared
    /\ Analysed = {1, 2}
    /\ ~ret.val.all_results[1].is_invertible
    /\ RGt(MarginAt(1), RZero)
    /\ ret.val.all_results[2].is_invertible
    /\ ret.val.best_model.model_index = 1
    /\ ret.val.worst_model.model_index = 0

NamedOperations == Batches \cup {"compare_ma_models", "batch_model_analysis"}

\* C18: batch_stationarity_check, batch_invertibility_check,
\* compare_ma_models and batch_model_analysis fail with a ValueError, and
\* return no entries, when the list of names has not the length of the list
\* of models; with as many names as models, or without names, they do not
\* raise.
C18_NamesOfAnotherLength ==
    call.op \in NamedOperations =>
        IF /\ call.arg.names.kind # "NoneType"
           /\ Len(call.arg.names.elems) # Len(call.arg.elems)
        THEN ret = Raise("ValueError",
                         Msg("as many model names as models are needed", "", << >>))
        ELSE ret.exc = "none"

\* batch_model_analysis has refused one name for two models, of which the
\* first is an invalid one
C18_Witness ==
    /\ call.op = "batch_model_analysis"
    /\ Len(call.arg.elems) = 2
    /\ call.arg.elems[1].ar = Arg("list", << >>)
    /\ call.arg.names = Arg("list", <<"a">>)
    /\ ret.exc = "ValueError"

\* the classification, in the family of the call, of the order-1 model of c
ClassifyOne(c) ==
    IF IsAr THEN StationarityCheck(Arg("list", <<Num(c)>>)).val
    ELSE InvertibilityCheck(Arg("list", <<Num(c)>>)).val

VerdictOf(r) == IF IsAr THEN r.is_stationary ELSE r.is_invertible

\* two root lists of the same length and, place by place, the same magnitudes
SameMagnitudes(roots, others) ==
    /\ Len(roots) = Len(others)
    /\ \A i \in 1..Len(roots) : REq(roots[i].magnitude, others[i].magnitude)

\* a margin report of a model of one coefficient
ReportedOrder1 == Reported /\ Len(call.arg.elems) = 1

MarginOf(report) ==
    IF call.op = "analyze_ar_stability_margin"
    THEN report.stability_margin
    ELSE report.invertibility_margin

\* C21: the order-1 models of c and of -c, in the same family, have roots of
\* the same magnitudes and the same verdict, and their margin reports have
\* the same margin and the same risk tier.
C21_SignInvariance ==
    /\ Order1 =>
           /\ SameMagnitudes(Roots, ClassifyOne(RNeg(Coefficients[1])).roots)
           /\ VerdictOf(ClassifyOne(RNeg(Coefficients[1]))) = Verdict
    /\ ReportedOrder1 =>
           /\ REq(Margin,
                  MarginOf(OperationOfList(call.op,
                               <<Num(RNeg(FloatOf(call.arg.elems[1])))>>).val))
           /\ ret.val.risk_level =
                  OperationOfList(call.op,
                      <<Num(RNeg(FloatOf(call.arg.elems[1])))>>).val.risk_level

\* the model of -2.0: a root of magnitude 0.5 and a false verdict, as for 2.0,
\* whose root is another one
C21_Witness ==
    /\ Order1
    /\ Coefficients = <<Rat(-2, 1)>>
    /\ Roots[1].magnitude = Rat(1, 2)
    /\ ~Verdict
    /\ ClassifyOne(Rat(2, 1)).roots[1].value # Roots[1].value
    /\ ClassifyOne(Rat(2, 1)).roots[1].magnitude = Rat(1, 2)

\* C23 as stated: every margin report carries all_distances, one entry
\* magnitude - 1.0 per root in root order, an empty list when the
\* classification has no roots.
C23_Original ==
    Reported =>
        /\ "all_distances" \in DOMAIN ret.val
        /\ ret.val.all_distances =
               [i \in 1..Len(ReportRoots) |-> RSub(ReportRoots[i].magnitude, ROne)]

\* C23 amended: the margin report of a classification with at least one
\* root carries all_distances, one entry magnitude - 1.0 per root in root
\* order; the report of a classification without roots has no all_distances
\* entry: its keys are the minimum distance, the closest root, the margin
\* and the risk tier.
C23_DistancesWhenRoots ==
    Reported =>
        IF ReportRoots = << >>
        THEN DOMAIN ret.val =
                 {"min_distance_to_unit_circle", "closest_root", "risk_level",
                  IF call.op = "analyze_ar_stability_margin"
                  THEN "stability_margin" ELSE "invertibility_margin"}
        ELSE /\ "all_distances" \in DOMAIN ret.val
             /\ Len(ret.val.all_distances) = Len(ReportRoots)
             /\ \A i \in 1..Len(ReportRoots) :
                    ret.val.all_distances[i] = RSub(ReportRoots[i].magnitude, ROne)

\* the margin report of the AR model [0.0, 0.0]: no roots, no all_distances
C23_Witness ==
    /\ Reported
    /\ call.op = "analyze_ar_stability_margin"
    /\ call.arg = Arg("list", <<Num(RZero), Num(RZero)>>)
    /\ ReportRoots = << >>
    /\ "all_distances" \notin DOMAIN ret.val

\* the verdict of the classification of the model of the report
ReportVerdict ==
    IF call.op = "analyze_ar_stability_margin"
    THEN StationarityCheck(call.arg).val.is_stationary
    ELSE InvertibilityCheck(call.arg).val.is_invertible

\* C24 as stated: the verdict is false exactly when the margin is <= 0,
\* which is exactly when the risk tier is 'high'.
C24_Original ==
    Reported =>
        /\ ~ReportVerdict <=> RLe(Margin, RZero)
        /\ RLe(Margin, RZero) <=> ret.val.risk_level = "high"

\* C24 amended: the verdict is false exactly when the margin is <= 1e-10,
\* and the risk tier is 'high' exactly when the margin is <= 0; so a model
\* of tier 'high' fails, and a failing model has tier 'high', or a margin in
\* (0, 1e-10] and tier 'medium'; no failing model has tier 'low'.
C24_VerdictWithinTolerance ==
    Reported =>
        /\ ~ReportVerdict <=> RLe(Margin, Tol)
        /\ ret.val.risk_level = "high" <=> RLe(Margin, RZero)
        /\ ret.val.risk_level = "high" => ~ReportVerdict
        /\ (~ReportVerdict /\ ret.val.risk_level # "high") =>
               /\ RGt(Margin, RZero)
               /\ RLe(Margin, Tol)
               /\ ret.val.risk_level = "medium"

\* the model [1/(1 + 0.5e-10)]: it fails with a positive margin, tier 'medium'
C24_Witness ==
    /\ Reported
    /\ call.arg = Arg("list", <<Num(NearOne)>>)
    /\ ~ReportVerdict
    /\ RGt(Margin, RZero)
    /\ ret.val.risk_level = "medium"

\* C25 as stated: whenever suggest reports that a modification is needed, the
\* report has suggested coefficients, as many as the original ones.
C25_Original ==
    (Suggested /\ ret.val.is_modification_needed) =>
        /\ "suggested_coefficients" \in DOMAIN ret.val
        /\ Len(ret.val.suggested_coefficients) = Len(ret.val.original_coefficients)

\* C25 amended: when suggest reports that a modification is needed, the
\* report has suggested coefficients, as many as the original ones, for
\* every model of two or more coefficients and for every model of one
\* coefficient c with |c| >= 1; for a failing model of one coefficient with
\* |c| < 1 it has none, and its only message is the count of problematic
\* roots.
C25_SuggestedUnlessOrder1Below1 ==
    (Suggested /\ ret.val.is_modification_needed) =>
        IF /\ Len(ret.val.original_coefficients) = 1
           /\ RLt(RAbs(ret.val.original_coefficients[1]), ROne)
        THEN /\ "suggested_coefficients" \notin DOMAIN ret.val
             /\ Len(ret.val.suggestions) = 1
             /\ ret.val.suggestions[1].text = "problematic roots found"
        ELSE /\ "suggested_coefficients" \in DOMAIN ret.val
             /\ Len(ret.val.suggested_coefficients) = Len(ret.val.original_coefficients)

\* suggest on [-1/(1 + 0.5e-10)]: a modification is needed, none is proposed
C25_Witness ==
    /\ Suggested
    /\ call.arg = Arg("list", <<Num(RNeg(NearOne))>>)
    /\ ret.val.is_modification_needed
    /\ "suggested_coefficients" \notin DOMAIN ret.val

\* the places of the entries of a comparison with a true verdict
Passing == {i \in 1..Len(ret.val.all_results) : ret.val.all_results[i].is_invertible}

\* C27: in every comparison total_models is the number of input models,
\* invertible_models the number of entries with a true verdict (an entry
\* with an error has a false one), non_invertible_models the rest,
\* invertibility_rate their quotient (0 for the empty batch), best_model and
\* worst_model are None exactly when no model was analysed, the empty batch
\* is not an error, and all_results has one entry per model in input order.
C27_ComparisonCounts ==
    /\ Compared =>
           /\ ret.val.total_models = Len(call.arg.elems)
           /\ ret.val.invertible_models = Cardinality(Passing)
           /\ \A i \in 1..Len(ret.val.all_results) :
                  "error" \in DOMAIN ret.val.all_results[i] => i \notin Passing
           /\ ret.val.invertible_models + ret.val.non_invertible_models =
                  ret.val.total_models
           /\ IF ret.val.total_models = 0
              THEN ret.val.invertibility_rate = RZero
              ELSE REq(ret.val.invertibility_rate,
                       Rat(ret.val.invertible_models, ret.val.total_models))
           /\ ret.val.best_model = None <=> Analysed = {}
           /\ ret.val.worst_model = None <=> Analysed = {}
           /\ Len(ret.val.all_results) = Len(call.arg.elems)
           /\ \A i \in 1..Len(ret.val.all_results) :
                  /\ ret.val.all_results[i].model_index = i - 1
                  /\ ret.val.all_results[i] =
                         [BatchInvertibilityCheck(<<call.arg.elems[i]>>,
                              Arg("list", <<ret.val.all_results[i].model_name>>)).val[1]
                              EXCEPT !.model_index = i - 1]
    /\ (/\ call.op = "compare_ma_models"
        /\ call.arg.elems = << >>
        /\ call.arg.names \in {Arg("NoneType", << >>), Arg("list", << >>)}) =>
           /\ ret.exc = "none"
           /\ ret.val.total_models = 0
           /\ ret.val.best_model = None
           /\ ret.val.worst_model = None

\* two models of which none is analysed: no best and no worst model, rate 0
C27_Witness ==
    /\ Compared
    /\ call.arg.elems = <<Arg("list", << >>), Arg("NoneType", << >>)>>
    /\ ret.val.total_models = 2
    /\ ret.val.non_invertible_models = 2
    /\ ret.val.invertibility_rate = RZero
    /\ ret.val.best_model = None

\* a shrink-and-recheck loop has a vector for which suggest asks for a
\* modification
LoopNeeds ==
    /\ call.op = "shrink_and_recheck"
    /\ ret.exc = "none"
    /\ ret.val.is_modification_needed

\* the loop has a vector for which suggest reports no modification needed
LoopEnded ==
    /\ call.op = "shrink_and_recheck"
    /\ ret.exc = "none"
    /\ ~ret.val.is_modification_needed

\* the vector of the loop is one coefficient c
LoopOrder1 == Len(call.arg.elems) = 1

RECURSIVE SumAbs(_)
\* the sum of the magnitudes of the coefficients of a vector
SumAbs(coeffs) ==
    IF coeffs = << >> THEN RZero
    ELSE RAdd(RAbs(coeffs[1]), SumAbs(Tail(coeffs)))

\* the loop cannot take a step: one coefficient c with |c| < 1
LoopOrder1Below1 == LoopOrder1 /\ RLt(RAbs(call.arg.elems[1].v), ROne)

\* C26 as stated: a shrink-and-recheck loop is never in a state where a
\* modification is needed and no suggested vector is there, its steps lead
\* it to a vector for which suggest reports no modification needed, and
\* from an order-1 model one step does.
C26_Original ==
    /\ [](LoopNeeds => "suggested_coefficients" \in DOMAIN ret.val)
    /\ [][LoopNeeds => call'.op = "shrink_and_recheck"]_vars
    /\ [][(LoopNeeds /\ LoopOrder1) => LoopEnded']_vars

\* C26 amended: from a failing vector of two or more coefficients, or of
\* one coefficient c with |c| >= 1, the loop always has a suggested vector
\* to go on with, every step on two or more coefficients multiplies the
\* sum of their magnitudes by 0.9 while a failing vector has a sum above
\* 1/2, and the step on one coefficient leads to magnitude 0.95, so that
\* after finitely many steps (one for an order-1 model) suggest reports no
\* modification needed; from a failing vector of one coefficient
\* with |c| < 1 the loop cannot take a step: a modification is needed and
\* no suggested vector is there.
C26_LoopEndsUnlessOrder1Below1 ==
    /\ [](call.op = "shrink_and_recheck" => ret.exc = "none")
    /\ [](LoopNeeds =>
              /\ ret.val.original_coefficients = FloatsOf(call.arg.elems)
              /\ RGt(SumAbs(ret.val.original_coefficients), Rat(1, 2))
              /\ "suggested_coefficients" \notin DOMAIN ret.val <=> LoopOrder1Below1)
    /\ [](Rechecking =>
              /\ Len(ret.val.suggested_coefficients) = Len(call.arg.elems)
              /\ SumAbs(ret.val.suggested_coefficients) =
                     IF LoopOrder1 THEN Rat(95, 100)
                     ELSE RMul(Rat(9, 10), SumAbs(ret.val.original_coefficients)))
    /\ [][(LoopNeeds /\ ~LoopOrder1Below1) =>
              /\ call'.op = "shrink_and_recheck"
              /\ call'.arg.family = call.arg.family
              /\ FloatsOf(call'.arg.elems) = ret.val.suggested_coefficients]_vars
    /\ [][(LoopNeeds /\ LoopOrder1 /\ ~LoopOrder1Below1) => LoopEnded']_vars

\* the loop from [2.0, 0.0] has ended after seven steps, at 2 * 0.9^7
C26_Witness ==
    /\ LoopEnded
    /\ Len(call.arg.elems) = 2
    /\ call.arg.elems[1].v = RMake(<<4782969>>, <<5000000>>)

\* the methods of a TSModelDiagnostic that run a check


\* the result of a family stored after a check of it: the result of the
\* check, or the one stored before if the check raised
StoredOr(outcome, old) == IF outcome.exc = "none" THEN <<outcome.val>> ELSE old

\* the summary in hand is the one of the stored results
SummaryOfStored ==
    /\ ret.exc = "none"
    /\ ret.val.ar_checked = (self.ar_result # << >>)
    /\ ret.val.ma_checked = (self.ma_result # << >>)
    /\ ret.val.ar_checked <=> "ar_stationary" \in DOMAIN ret.val
    /\ ret.val.ma_checked <=> "ma_invertible" \in DOMAIN ret.val
    /\ ret.val.ar_checked =>
           /\ ret.val.ar_stationary = self.ar_result[1].is_stationary
           /\ ret.val.ar_coefficients = self.ar_result[1].ar_coefficients
           /\ ret.val.ar_num_roots = Len(self.ar_result[1].roots)
    /\ ret.val.ma_checked =>
           /\ ret.val.ma_invertible = self.ma_result[1].is_invertible
           /\ ret.val.ma_coefficients = self.ma_result[1].ma_coefficients
           /\ ret.val.ma_num_roots = Len(self.ma_result[1].roots)
    /\ "arma_valid" \in DOMAIN ret.val <=> (ret.val.ar_checked /\ ret.val.ma_checked)
    /\ "arma_valid" \in DOMAIN ret.val =>
           ret.val.arma_valid = (ret.val.ar_stationary /\ ret.val.ma_invertible)

\* C28: a TSModelDiagnostic starts with no stored result; a check of a family
\* that succeeds stores its result as the result of that family and a check
\* that raises (or a call that does not check the family) leaves the stored
\* result of the family unchanged, so the stored result of a family is the
\* one of its most recent successful check; get_summary reports ar_checked
\* (ma_checked) exactly when a result of the family is stored, reports the
\* fields of the stored results, and has 'arma_valid' exactly when both are
\* stored, equal to ar_stationary AND ma_invertible.
C28_SummaryOfStoredResults ==
    /\ self.ar_result = << >> /\ self.ma_result = << >>
    /\ [][self'.ar_result =
              IF call'.op = "check_ar_model"
              THEN StoredOr(CheckOf("AR", call'.arg), self.ar_result)
              ELSE IF call'.op = "check_arma_model"
              THEN StoredOr(CheckOf("AR", call'.arg.ar), self.ar_result)
              ELSE self.ar_result]_vars
    /\ [][self'.ma_result =
              IF call'.op = "check_ma_model"
              THEN StoredOr(CheckOf("MA", call'.arg), self.ma_result)
              ELSE IF call'.op = "check_arma_model"
              THEN IF CheckOf("AR", call'.arg.ar).exc = "none"
                   THEN StoredOr(CheckOf("MA", call'.arg.ma), self.ma_result)
                   ELSE self.ma_result
              ELSE self.ma_result]_vars
    /\ [][(call'.op = "check_ar_model" /\ ret'.exc = "none") =>
              self'.ar_result = <<ret'.val>>]_vars
    /\ [][(call'.op = "check_ma_model" /\ ret'.exc = "none") =>
              self'.ma_result = <<ret'.val>>]_vars
    /\ [](call.op = "get_summary" => SummaryOfStored)

\* get_summary after an AR check of a stationary model and an MA check of a
\* model that is not invertible: both checked, 'arma_valid' false
C28_Witness ==
    /\ call.op = "get_summary"
    /\ "arma_valid" \in DOMAIN ret.val
    /\ ret.val.ar_stationary
    /\ ~ret.val.ma_invertible
    /\ ~ret.val.arma_valid
    /\ ret.val.ar_coefficients # ret.val.ma_coefficients

\* C29: a check_arma_model call that raises leaves both stored results as
\* they were before the call.
C29_AllOrNothing ==
    [][(call'.op = "check_arma_model" /\ ret'.exc # "none") => self' = self]_vars

\* the family of the command in progress
CommandFamily == IF call.op = "stationarity" THEN "AR" ELSE "MA"

\* the coefficients text handed to the command in progress
CommandText == Arg("str", call.arg.elems)

\* the classification the command in progress runs first
CommandCheck == CheckOf(CommandFamily, CommandText)

\* a step of the command in progress has raised: the classification, or the
\* margin analysis or the suggestions it was asked for
StepRaised ==
    IF CommandCheck.exc # "none" THEN TRUE
    ELSE \/ /\ call.arg.analysis
            /\ AnalyzeOf(CommandFamily,
                         ResultCoefficients(CommandFamily, CommandCheck.val)).exc # "none"
         \/ /\ call.arg.suggest
            /\ SuggestOf(CommandFamily,
                         ResultCoefficients(CommandFamily, CommandCheck.val)).exc # "none"

\* an option of the check command in progress is supplied, and its
\* classification
Supplied(option) == option.kind = "str" /\ Len(option.elems) > 0

PartRaised(name, option) == Supplied(option) /\ CheckOf(name, option).exc # "none"

PartFails(name, option) ==
    /\ Supplied(option)
    /\ CheckOf(name, option).exc = "none"
    /\ ~Passes(name, CheckOf(name, option).val)

\* the exit code the check command in progress is to end with
CheckExitCode ==
    IF ~Supplied(call.arg.ar) /\ ~Supplied(call.arg.ma) THEN 2
    ELSE IF PartRaised("AR", call.arg.ar) \/ PartRaised("MA", call.arg.ma) THEN 2
    ELSE IF PartFails("AR", call.arg.ar) \/ PartFails("MA", call.arg.ma) THEN 1
    ELSE 0

\* C30: every run of a command ends with one exit code: stationarity and
\* invertibility with 2 exactly when a step raised, otherwise 0 when the
\* verdict is true and 1 when it is false; check with 2 when no option is
\* supplied or a step raised, otherwise 1 when a supplied part fails and 0
\* when every supplied part passes (an option is supplied when its value is a
\* text that is not empty). The handler of a command never turns the exit
\* with the verdict code into 2.
C30_ExitCodes ==
    /\ call.op \in {"stationarity", "invertibility"} =>
           /\ ret.exc = "SystemExit"
           /\ ret.val = IF StepRaised THEN 2
                        ELSE IF Passes(CommandFamily, CommandCheck.val) THEN 0
                        ELSE 1
    /\ call.op = "check" =>
           /\ ret.exc = "SystemExit"
           /\ ret.val = CheckExitCode

\* check --ar ".1" --ma "2" ends with 1: the AR part passes, the MA part fails
C30_Witness ==
    /\ call.op = "check"
    /\ call.arg.ar = Arg("str", <<".", "1">>)
    /\ call.arg.ma = Arg("str", <<"2">>)
    /\ ret = SysExit(1)

\* the operations on one model and on a list of models
ModelOps ==
    {"stationarity_check", "invertibility_check",
     "check_ar_stationarity", "check_ma_invertibility",
     "analyze_ar_stability_margin", "analyze_ma_invertibility_margin",
     "suggest_ar_modifications", "suggest_ma_modifications"}

BatchOps ==
    {"batch_stationarity_check", "batch_invertibility_check", "compare_ma_models"}

\* the outcome of the operation in progress as a function of its arguments
OutcomeOfCall ==
    CASE call.op = "stationarity_check" -> StationarityCheck(call.arg)
      [] call.op = "invertibility_check" -> InvertibilityCheck(call.arg)
      [] call.op = "check_ar_stationarity" -> CheckArStationarity(call.arg)
      [] call.op = "check_ma_invertibility" -> CheckMaInvertibility(call.arg)
      [] call.op = "analyze_ar_stability_margin" -> AnalyzeArStabilityMargin(call.arg)
      [] call.op = "analyze_ma_invertibility_margin" -> AnalyzeMaInvertibilityMargin(call.arg)
      [] call.op = "suggest_ar_modifications" -> SuggestArModifications(call.arg)
      [] call.op = "suggest_ma_modifications" -> SuggestMaModifications(call.arg)
      [] call.op = "batch_stationarity_check" ->
             BatchStationarityCheck(call.arg.elems, call.arg.names)
      [] call.op = "batch_invertibility_check" ->
             BatchInvertibilityCheck(call.arg.elems, call.arg.names)
      [] call.op = "compare_ma_models" -> CompareMaModels(call.arg.elems, call.arg.names)

\* the objects the caller has handed to the operation in progress: the model,
\* or the list of the models, the names and the models
CallerObjects ==
    IF call.op \in BatchOps
    THEN <<Arg("list", [i \in 1..Len(call.arg.elems) |-> Ref(2 + i)]), call.arg.names>>
             \o call.arg.elems
    ELSE <<call.arg>>

\* the lists of coefficients of the entries of a batch: << >> stands for the
\* None of an error entry
EntryLists(entries) ==
    [i \in 1..Len(entries) |->
        IF "error" \in DOMAIN entries[i] THEN << >> ELSE entries[i].coefficients]

\* the lists of coefficients the outcome in hand holds
ListsHeld ==
    IF ret.exc # "none" THEN << >>
    ELSE CASE call.op \in {"stationarity_check", "check_ar_stationarity"} ->
                  <<ret.val.ar_coefficients>>
           [] call.op \in {"invertibility_check", "check_ma_invertibility"} ->
                  <<ret.val.ma_coefficients>>
           [] call.op \in {"analyze_ar_stability_margin",
                           "analyze_ma_invertibility_margin"} -> << >>
           [] call.op \in {"suggest_ar_modifications", "suggest_ma_modifications"} ->
                  IF "suggested_coefficients" \in DOMAIN ret.val
                  THEN <<ret.val.original_coefficients, ret.val.suggested_coefficients>>
                  ELSE <<ret.val.original_coefficients>>
           [] call.op = "compare_ma_models" -> EntryLists(ret.val.all_results)
           [] OTHER -> EntryLists(ret.val)

\* the floats of a list object
ObjectFloats(object) == [i \in 1..Len(object.elems) |-> object.elems[i].v]

\* C22: a core operation (classify, margin report, suggest, batch, compare)
\* is a function of its arguments: whatever was called before, its outcome
\* is the one its arguments determine; the objects handed in by the caller
\* (the coefficient sequence, or the list of models, the names and the
\* models) are as they were; and every list of coefficients the result holds
\* is a list object of its own, none of the caller's objects and none held
\* twice.
C22_PureFunctions ==
    (call.op \in ModelOps \cup BatchOps) =>
        /\ ret = OutcomeOfCall
        /\ SubSeq(heap.objects, 1, Len(CallerObjects)) = CallerObjects
        /\ Len(heap.refs) = Len(ListsHeld)
        /\ \A i \in 1..Len(heap.refs) :
               IF heap.refs[i] = 0 THEN ListsHeld[i] = << >>
               ELSE /\ heap.refs[i] > Len(CallerObjects)
                    /\ ObjectFloats(heap.objects[heap.refs[i]]) = ListsHeld[i]
                    /\ \A j \in 1..Len(heap.refs) : heap.refs[j] = heap.refs[i] => j = i

\* suggest_ar_modifications([2.0]) has returned after checks on the
\* TSModelDiagnostic object: the report holds two lists of its own
C22_Witness ==
    /\ call.op = "suggest_ar_modifications"
    /\ call.arg = Arg("list", <<Num(Rat(2, 1))>>)
    /\ self.ar_result # << >>
    /\ self.ma_result # << >>
    /\ heap.objects[1] = call.arg
    /\ heap.refs = <<3, 6>>
    /\ ret.val.original_coefficients = <<Rat(2, 1)>>

====
